---- MODULE Spec2Model ----
(***************************************************************************)
(* Verification model of the sandboxed execution and step-orchestration    *)
(* engine of excel-agent.                                                  *)
(*                                                                         *)
(* Text is modelled as a sequence of tokens.  A token is either one        *)
(* character or one lexical unit that the code only ever treats as a whole *)
(* (a marker word, an ISO-8601 timestamp):                                 *)
(*   "T"  an ISO timestamp such as 2024-01-09T14:14:04.874924845Z          *)
(*   " "  one whitespace character                                         *)
(*   "N"  a line break                                                     *)
(*   "S"  __DOKPLOY_RESULT_START__       "E"  __DOKPLOY_RESULT_END__       *)
(*   "{" "}"  the braces of a JSON object                                  *)
(*   "1"  the members of a result with success true, up to "output":       *)
(*   "0"  the members of a result with success false, up to "output":      *)
(*   "q"  a double quote          "x"  any other printable character       *)
(*   "7"  a JSON number literal                                            *)
(***************************************************************************)
EXTENDS Integers, Sequences, FiniteSets, TLC

VARIABLES
    logs,        \* _parse_logs: the log text handed to the parser
    embedded,    \* the result object the entrypoint wrote, NoObj if none
    parsed,      \* _parse_logs: what the call produced, NotCalled before
    ppc,         \* position of the parser scenario: "ready" or "done"
    code_history,\* DokployClient.code_history of the shared remote client
    call_log,    \* the execute calls made on that client since it was created:
                 \* for each, the snippet, the success flag it returned and
                 \* the conversation whose tool call it was
    bundle_code, \* the user_code literal in main.py of the last deployed bundle
    last_call,   \* the last execute call on any backend: who, what was returned
                 \* or raised, and the fault the environment injected
    applications,     \* the applications that client's calls created on the
                      \* platform, oldest first: name and applicationId
    build_type_calls, \* the saveBuildType requests that client's calls made
    analysis_steps,    \* state["analysis_steps"]: the steps of the plan, in order
    active_step_index, \* state["active_step_index"], 0-based, -1 when none
    code_iterations,   \* state["code_iterations"]
    last_message,      \* state["messages"][-1]
    node,              \* the graph node that runs next; "END", "raised" when stopped
    model_calls,       \* model invocations since code_iterations was last zero
    routed,            \* the last decision of should_continue_coding and its inputs
    trail,             \* the node functions applied so far, newest last
    messages,          \* finalize_analysis_node: the tool-result and model messages
                       \* of state["messages"], in order
    final,             \* finalize_analysis_node: the returned artifacts and how the
                       \* summary call ended
    fpc,               \* position of the finalization scenario: "ready" or "done"
    SESSION_CONTEXTS,  \* sandbox_server: the binding set of each session id
    sys_stdout,        \* sandbox_server: the stream sys.stdout names, Console or the
                      \* StringIO of a request
    requests,          \* the /execute requests: position in the handler, captured text,
                      \* saved stream, result
    succeeded,        \* per session, the names bound by requests that returned
                      \* success = true since the session was last reset
    last_reset,       \* the last /reset request: its session id and its reply
    compared,         \* the last snippet run on both backends: what each returned and
                      \* the bindings each ended with
    harness,           \* which program drives the queue: "chat_stream" or "verify_queue"
    stream_queue,      \* the asyncio.Queue between the graph task and the response stream
    graph_pc,          \* run_graph: "running", "returned", "raised", "handled", "finished"
    consumer_pc,       \* the reading loop: "waiting", "stopped" after the break, "complete"
    put_log,           \* every item put on the queue so far, in order
    received,          \* every item the reading loop took off the queue, in order
    yielded,          \* the items the reading loop passed on to the client
    poll_count,        \* _monitor_deployment: the status requests made so far
    poll_status,       \* what the last status request met: a status, no deployment, or
                      \* a transport failure
    monitor,           \* _monitor_deployment: "polling", "returned", or the exception raised
    monitor_result,   \* what execute_code returned after the monitor raised
    ws_received,       \* messages the log socket delivered to _fetch_logs, in arrival order
    collected_logs,    \* _fetch_logs: the accumulated text
    fetch_pc,          \* _fetch_logs: idle, connecting, reading, returned or raised
    fetch_ended,       \* why the reading ended: markers, closed, failed, connect_failed
    fetch_return,     \* what _fetch_logs returned
    step_prompt,       \* the system/user prompt pair of the last dispatch
    node_messages,     \* the messages of the last tool_execution_node run since the worker ran
    tool_log,         \* start and return of each tool in that run, in time order
    repl_calls,        \* python_repl_tool: the calls made so far, each with its own uuid4
    plot_files,        \* the files under .vdb/plots written so far
    repl_embedded,     \* the plots list of the result execute_code gave the last call
    repl_result,      \* the result the last call of python_repl_tool returned
    plots_dir,         \* the names of the files in each directory PLOTS_DIR / request_uuid
    plot_calls        \* per /execute request: its position, its snapshot, what its code wrote, its plots

pvars == <<logs, embedded, parsed, ppc>>
rvars == <<code_history, call_log, bundle_code, last_call, applications,
           build_type_calls>>
gvars == <<analysis_steps, active_step_index, code_iterations, last_message, node,
           model_calls, routed, trail>>
fvars == <<messages, final, fpc>>
lvars == <<SESSION_CONTEXTS, sys_stdout, requests, succeeded, last_reset>>
xvars == <<compared>>
qvars == <<harness, stream_queue, graph_pc, consumer_pc, put_log, received, yielded>>
mvars == <<poll_count, poll_status, monitor, monitor_result>>
wvars == <<ws_received, collected_logs, fetch_pc, fetch_ended, fetch_return>>
dvars == <<step_prompt, node_messages, tool_log>>
tvars == <<repl_calls, plot_files, repl_embedded, repl_result>>
kvars == <<plots_dir, plot_calls>>
vars == <<pvars, rvars, gvars, fvars, lvars, xvars, qvars, mvars, wvars, dvars, tvars, kvars>>

\* what the operations of one component leave alone: the other components
not_pvars == <<rvars, gvars, fvars, lvars, xvars, qvars, mvars, wvars, dvars, tvars, kvars>>
not_rvars == <<pvars, gvars, fvars, lvars, xvars, qvars, mvars, wvars, dvars, tvars, kvars>>
not_gvars == <<pvars, rvars, fvars, lvars, xvars, qvars, mvars, wvars, dvars, tvars, kvars>>
not_fvars == <<pvars, rvars, gvars, lvars, xvars, qvars, mvars, wvars, dvars, tvars, kvars>>
not_lvars == <<pvars, rvars, gvars, fvars, xvars, qvars, mvars, wvars, dvars, tvars, kvars>>
not_xvars == <<pvars, rvars, gvars, fvars, lvars, qvars, mvars, wvars, dvars, tvars, kvars>>
not_qvars == <<pvars, rvars, gvars, fvars, lvars, xvars, mvars, wvars, dvars, tvars, kvars>>
not_mvars == <<pvars, rvars, gvars, fvars, lvars, xvars, qvars, wvars, dvars, tvars, kvars>>
not_wvars == <<pvars, rvars, gvars, fvars, lvars, xvars, qvars, mvars, dvars, tvars, kvars>>
not_dvars == <<pvars, rvars, gvars, fvars, lvars, xvars, qvars, mvars, wvars, tvars, kvars>>
not_tvars == <<pvars, rvars, gvars, fvars, lvars, xvars, qvars, mvars, wvars, dvars, kvars>>
not_kvars == <<pvars, rvars, gvars, fvars, lvars, xvars, qvars, mvars, wvars, dvars, tvars>>
not_gvars_dvars == <<pvars, rvars, fvars, lvars, xvars, qvars, mvars, wvars, tvars, kvars>>

----------------------------------------------------------------------------
(* Bounds *)

MaxOut == 2        \* longest "output" string of an embedded result object
MaxChunks == 3     \* number of chunks an arbitrary log text is built from
MaxCalls == 3      \* execute calls on the remote client between two resets
MaxSteps == 2      \* steps of an analysis plan
MaxTrail == 3      \* node applications the trail remembers
MaxRequests == 2   \* /execute requests the local service receives
MaxCaptured == 3   \* length of a captured text up to which /reset is taken
MaxEvents == 2     \* progress events the nodes of one graph invocation put

----------------------------------------------------------------------------
(* Text helpers: Python str operations used by the parser *)

start_marker == "S"
end_marker == "E"

IsSpace(c) == c = " "

\* str(v) of the small integers the code computes
StrOf(v) == <<"1", "2", "3", "4">>[v]

Contains(s, tok) == \E i \in 1..Len(s) : s[i] = tok

\* str.find for a single token: the first index, 0 when absent
Find(s, tok) ==
    IF Contains(s, tok)
    THEN CHOOSE i \in 1..Len(s) : s[i] = tok /\ \A j \in 1..(i-1) : s[j] # tok
    ELSE 0

\* the last index of tok, 0 when absent
RFind(s, tok) ==
    IF Contains(s, tok)
    THEN CHOOSE i \in 1..Len(s) : s[i] = tok /\ \A j \in (i+1)..Len(s) : s[j] # tok
    ELSE 0

\* line.split(marker)[-1]
AfterLast(s, tok) == SubSeq(s, RFind(s, tok) + 1, Len(s))

\* line.split(marker)[0]
BeforeFirst(s, tok) == IF Contains(s, tok) THEN SubSeq(s, 1, Find(s, tok) - 1) ELSE s

\* index of the first non-whitespace token at or after position k, Len+1 if none
SkipSpace(s, k) ==
    IF \E i \in k..Len(s) : ~IsSpace(s[i])
    THEN CHOOSE i \in k..Len(s) : ~IsSpace(s[i]) /\ \A j \in k..(i-1) : IsSpace(s[j])
    ELSE Len(s) + 1

\* index of the last non-whitespace token, 0 if none
LastNonSpace(s) ==
    IF \E i \in 1..Len(s) : ~IsSpace(s[i])
    THEN CHOOSE i \in 1..Len(s) : ~IsSpace(s[i]) /\ \A j \in (i+1)..Len(s) : IsSpace(s[j])
    ELSE 0

\* str.strip()
Strip(s) == SubSeq(s, SkipSpace(s, 1), LastNonSpace(s))

\* str.splitlines()
RECURSIVE SplitLines(_)
SplitLines(s) ==
    IF s = <<>> THEN <<>>
    ELSE LET k == IF Contains(s, "N") THEN Find(s, "N") ELSE Len(s) + 1
         IN  <<SubSeq(s, 1, k - 1)>> \o SplitLines(SubSeq(s, k + 1, Len(s)))

\* "".join(parts)
RECURSIVE Concat(_)
Concat(parts) ==
    IF parts = <<>> THEN <<>> ELSE Head(parts) \o Concat(Tail(parts))

\* timestamp_regex.sub('', s) with the pattern ^<timestamp>\s*
StripTimestamp(s) ==
    IF s # <<>> /\ Head(s) = "T" THEN SubSeq(s, SkipSpace(s, 2), Len(s)) ELSE s

----------------------------------------------------------------------------
(* json.dumps / json.loads on the result objects of the marker protocol *)

NoObj == [kind |-> "none"]
RaisedValue == [kind |-> "raise"]
JsonNumber == [kind |-> "num"]
EmptyObject == [kind |-> "empty"]

\* the dict the entrypoint builds: {success, output, error, plots}; it has no
\* "tables" key
ResultObject(success, output) ==
    [kind |-> "obj", success |-> success, output |-> output,
     error |-> IF success THEN "null" ELSE "user_error",
     plots |-> <<>>, tables |-> "absent"]

\* json.dumps(_RESULT): one line, a space after each colon
Dumps(obj) ==
    <<"{", IF obj.success THEN "1" ELSE "0", " ", "q">> \o obj.output \o <<"q", "}">>

\* json.loads: surrounding whitespace is ignored, whitespace inside a string
\* is content, anything after the value is an error
Loads(s) ==
    LET t == Strip(s) IN
    IF t # <<>> /\ \A i \in 1..Len(t) : t[i] = "7" THEN JsonNumber
    ELSE IF Len(t) < 2 \/ t[1] # "{" \/ t[Len(t)] # "}" THEN RaisedValue
    ELSE
      LET inner == SubSeq(t, 2, Len(t) - 1)
          i1 == SkipSpace(inner, 1)
      IN  IF i1 > Len(inner) THEN EmptyObject
          ELSE IF inner[i1] \notin {"0", "1"} THEN RaisedValue
          ELSE
            LET i2 == SkipSpace(inner, i1 + 1) IN
            IF i2 > Len(inner) \/ inner[i2] # "q" THEN RaisedValue
            ELSE
              LET rest == SubSeq(inner, i2 + 1, Len(inner))
                  i3 == Find(rest, "q")
              IN  IF i3 = 0 THEN RaisedValue
                  ELSE IF SkipSpace(rest, i3 + 1) <= Len(rest) THEN RaisedValue
                  ELSE ResultObject(inner[i1] = "1", SubSeq(rest, 1, i3 - 1))

----------------------------------------------------------------------------
(* DokployClient._parse_logs *)

\* the synthetic failure result returned when nothing could be parsed
FailureResult(raw) ==
    [kind |-> "obj", success |-> FALSE, output |-> raw,
     error |-> "Failed to parse execution result from logs",
     plots |-> <<>>, tables |-> <<>>]

\* the for loop over the lines: capturing flag, marker tests, break at the
\* end marker
RECURSIVE ScanLines(_, _, _, _)
ScanLines(lines, i, capturing, result_lines) ==
    IF i > Len(lines) THEN result_lines
    ELSE
      LET line == lines[i] IN
      IF Contains(line, start_marker)
      THEN LET content == Strip(StripTimestamp(AfterLast(line, start_marker)))
           IN  ScanLines(lines, i + 1, TRUE,
                         IF content # <<>> THEN Append(result_lines, content)
                                           ELSE result_lines)
      ELSE IF Contains(line, end_marker)
      THEN LET content == Strip(StripTimestamp(BeforeFirst(line, end_marker)))
           IN  IF content # <<>> THEN Append(result_lines, content) ELSE result_lines
      ELSE IF capturing
      THEN ScanLines(lines, i + 1, capturing, Append(result_lines, StripTimestamp(line)))
      ELSE ScanLines(lines, i + 1, capturing, result_lines)

ResultLines(text) == ScanLines(SplitLines(text), 1, FALSE, <<>>)

\* json_str[start_idx:] when it has a "{", json_str otherwise
CutToBrace(json_str, start_idx) ==
    IF start_idx # 0 THEN SubSeq(json_str, start_idx, Len(json_str)) ELSE json_str

\* "".join(result_lines) cut to its first "{"
JoinedFrom(json_str) == CutToBrace(json_str, Find(json_str, "{"))
JsonStr(result_lines) == JoinedFrom(Concat(result_lines))

Returned(v) == [raised |-> FALSE, value |-> v]
Raises == [raised |-> TRUE, value |-> RaisedValue]
NotCalled == [raised |-> FALSE, value |-> NoObj]

\* return json.loads(json_str): the loaded value, or the exception
LoadResult(v) == IF v = RaisedValue THEN Raises ELSE Returned(v)

\* `except Exception` followed by the fall-through return
Caught(r, fallback) == IF r.raised THEN Returned(fallback) ELSE r
Uncaught(r, fallback) == r

\* the try block after the loop: returns the loaded value, or raises, or
\* falls through to the synthetic failure
LoadCaptured(result_lines, text) ==
    IF result_lines # <<>> THEN LoadResult(Loads(JsonStr(result_lines)))
    ELSE Returned(FailureResult(text))

ParseLogsTry(text) == LoadCaptured(ResultLines(text), text)

_parse_logs_uncaught(text) == Uncaught(ParseLogsTry(text), FailureResult(text))
_parse_logs(text) == Caught(ParseLogsTry(text), FailureResult(text))

----------------------------------------------------------------------------
(* Log texts handed to the parser *)

OutChars == {"x", " "}

RECURSIVE SeqsUpTo(_, _)
SeqsUpTo(S, n) ==
    IF n = 0 THEN {<<>>}
    ELSE LET shorter == SeqsUpTo(S, n - 1)
         IN  shorter \cup {Append(s, c) : s \in {t \in shorter : Len(t) = n - 1}, c \in S}

Outputs == SeqsUpTo(OutChars, MaxOut)

EmbeddedResults == {ResultObject(ok, out) : ok \in BOOLEAN, out \in Outputs}

\* what the log transport puts in front of a line
Prefix(ts) == IF ts THEN <<"T", " ">> ELSE <<>>

\* The entrypoint writes the start marker line, json.dumps(_RESULT) and the end
\* marker line to the raw standard output; the transport delivers them after a
\* line of earlier output, cuts the JSON line after `cut` tokens (0: not at
\* all) and prefixes every line when ts.
DeliveredLog(obj, ts, cut) ==
    LET j == Dumps(obj)
        body == IF cut = 0 THEN Prefix(ts) \o j
                ELSE Prefix(ts) \o SubSeq(j, 1, cut) \o <<"N">>
                     \o Prefix(ts) \o SubSeq(j, cut + 1, Len(j))
    IN  Prefix(ts) \o <<"x", "N">>
        \o Prefix(ts) \o <<start_marker, "N">>
        \o body \o <<"N">>
        \o Prefix(ts) \o <<end_marker, "N">>

WellFormedInputs ==
    UNION {{[logs |-> DeliveredLog(obj, ts, cut), embedded |-> obj] :
                ts \in BOOLEAN, cut \in 0..(Len(Dumps(obj)) - 1)} :
           obj \in EmbeddedResults}

\* pieces an arbitrary log text is made of
Chunks ==
    {<<"T", " ">>, <<"N">>, <<start_marker>>, <<end_marker>>, <<" ">>, <<"x">>,
     <<"7">>, <<"{", "}">>, <<"{", "1", "q", "x", "q", "}">>, <<"{", "0", "q">>}

ArbitraryLogs == {Concat(cs) : cs \in SeqsUpTo(Chunks, MaxChunks)}

ParserInputs ==
    WellFormedInputs \cup {[logs |-> l, embedded |-> NoObj] : l \in ArbitraryLogs}

----------------------------------------------------------------------------
(* Specification of the parser scenario *)

NotFinalized == [artifacts |-> <<>>, cleanup |-> "none"]
\* the conversations (session ids) whose tool calls reach the executors
Sessions == {"s1", "s2"}

\* the names the submitted code binds; 0 stands for "not bound"
VarNames == {"x", "y"}
Unbound == [n \in VarNames |-> 0]

NoContext == [plots_dir |-> "absent", tables_dir |-> "absent", names |-> Unbound]
NoSessions == [s \in Sessions |-> NoContext]

\* sys.stdout before any request redirected it
Console == 0
RequestIds == 1..MaxRequests

NoResult == [success |-> FALSE, output |-> <<>>]
IdleRequest ==
    [pc |-> "idle", session |-> "none", code |-> <<>>, ip |-> 0, old_stdout |-> Console,
     buffer |-> <<>>, printed |-> <<>>, failed_at |-> 0, seen |-> {}, result |-> NoResult]
NoRequests == [c \in RequestIds |-> IdleRequest]
NoneSucceeded == [s \in Sessions |-> {}]
NoReset == [session |-> "none", success |-> FALSE, message |-> "none"]

NoRun == [success |-> FALSE, output |-> <<>>, names |-> Unbound]
NotCompared == [remote |-> NoRun, local |-> NoRun]

NoPrompt == [system |-> <<>>, user |-> <<>>]
NoReplResult == [plots |-> <<>>, tables |-> <<>>]
NoPlotCalls == <<>>
NoCall == [backend |-> "none", raised |-> FALSE, value |-> NoObj, fault |-> "none"]
NoMessage == [type |-> "none", tool_calls |-> <<>>]
NoDecision == [route |-> "none", iteration |-> 0, message |-> NoMessage, active |-> -1]

InitParse ==
    /\ plots_dir = {} /\ plot_calls = NoPlotCalls
    /\ repl_calls = 0 /\ plot_files = {} /\ repl_embedded = <<>> /\ repl_result = NoReplResult
    /\ step_prompt = NoPrompt /\ node_messages = <<>> /\ tool_log = <<>>
    /\ ws_received = <<>> /\ collected_logs = <<>> /\ fetch_pc = "idle"
    /\ fetch_ended = "none" /\ fetch_return = <<>>
    /\ poll_count = 0 /\ poll_status = "none" /\ monitor = "idle" /\ monitor_result = NoCall
    /\ harness = "none" /\ stream_queue = <<>> /\ graph_pc = "idle"
    /\ consumer_pc = "idle" /\ put_log = <<>> /\ received = <<>> /\ yielded = <<>>
    /\ compared = NotCompared
    /\ SESSION_CONTEXTS = NoSessions /\ sys_stdout = Console
    /\ requests = NoRequests /\ succeeded = NoneSucceeded /\ last_reset = NoReset
    /\ messages = <<>> /\ final = NotFinalized /\ fpc = "idle"
    /\ code_history = <<>> /\ call_log = <<>> /\ bundle_code = <<>> /\ last_call = NoCall
    /\ applications = <<>> /\ build_type_calls = 0
    /\ analysis_steps = <<>> /\ active_step_index = -1 /\ code_iterations = 0
    /\ last_message = NoMessage /\ node = "idle" /\ model_calls = 0
    /\ routed = NoDecision /\ trail = <<>>
    /\ parsed = NotCalled
    /\ ppc = "ready"
    /\ \E i \in ParserInputs : logs = i.logs /\ embedded = i.embedded

\* result = self._parse_logs(logs)
ParseLogsCall ==
    /\ ppc = "ready"
    /\ parsed' = _parse_logs(logs)
    /\ ppc' = "done"
    /\ UNCHANGED <<logs, embedded>>
    /\ UNCHANGED not_pvars


----------------------------------------------------------------------------
(* The remote executor: bundle, replay, history *)

\* repr(code): a quoted literal, backslash and line break escaped
RECURSIVE Escape(_)
Escape(s) ==
    IF s = <<>> THEN <<>>
    ELSE (IF Head(s) = "N" THEN <<"\\", "n">>
          ELSE IF Head(s) = "\\" THEN <<"\\", "\\">>
          ELSE <<Head(s)>>) \o Escape(Tail(s))

Repr(s) == <<"'">> \o Escape(s) \o <<"'">>

\* the value of the literal when Python compiles `user_code = <literal>`
RECURSIVE Unescape(_)
Unescape(s) ==
    IF s = <<>> THEN <<>>
    ELSE IF Head(s) = "\\" /\ Len(s) >= 2
    THEN (IF s[2] = "n" THEN <<"N">> ELSE <<s[2]>>) \o Unescape(SubSeq(s, 3, Len(s)))
    ELSE <<Head(s)>> \o Unescape(Tail(s))

EvalLiteral(lit) == Unescape(SubSeq(lit, 2, Len(lit) - 1))

\* "\n".join(parts)
RECURSIVE JoinNL(_)
JoinNL(parts) ==
    IF parts = <<>> THEN <<>>
    ELSE IF Len(parts) = 1 THEN Head(parts)
    ELSE Head(parts) \o <<"N">> \o JoinNL(Tail(parts))

\* current_execution_code = "\n".join(self.code_history + [code])
current_code_no_replay(history, code) == JoinNL(<<code>>)
current_execution_code(history, code) == JoinNL(Append(history, code))

\* main.py of the bundle: the template with repr(code) in place of
\* {user_code_repr}
NoBundle == <<>>
create_zip_bundle(code) == Repr(code)

\* if result["success"]: self.code_history.append(code)
history_always_appended(history, code, result) == Append(history, code)
history_after(history, code, result) ==
    IF result.success THEN Append(history, code) ELSE history

\* the result of the except branch of execute_code
DokployError ==
    [kind |-> "obj", success |-> FALSE, output |-> <<>>,
     error |-> "Dokploy execution error", plots |-> <<>>, tables |-> <<>>]

\* snippets the model submits
Snippets == {<<"a", "N", "b">>, <<"\\", "n">>}

\* where the platform can fail before any log is read; "none": it does not
StagesBeforeBundle == {"create_application", "save_build_type", "resolve_application"}
StagesAfterBundle ==
    {"upload", "deploy", "deployment_error", "deployment_timeout", "container_id"}
Stages == StagesBeforeBundle \cup StagesAfterBundle \cup {"none"}

\* what the log stream delivers of the entrypoint's output
Deliveries == {"full", "no_end", "no_start", "nothing", "number", "empty_object"}

FetchedLogs(obj, ts, cut, delivery) ==
    LET full == DeliveredLog(obj, ts, cut) IN
    CASE delivery = "full" -> full
      [] delivery = "no_end" -> SubSeq(full, 1, Len(full) - Len(Prefix(ts)) - 2)
      [] delivery = "no_start" -> SubSeq(full, 2 * Len(Prefix(ts)) + 5, Len(full))
      [] delivery = "nothing" -> <<>>
      [] delivery = "number" -> <<start_marker, "N", "7", "N", end_marker, "N">>
      [] delivery = "empty_object" -> <<start_marker, "N", "{", "}", "N", end_marker, "N">>

\* results of the container run the model lets the entrypoint embed
RunResults == {ResultObject(TRUE, <<"x">>), ResultObject(FALSE, <<"x", " ">>)}

\* what the environment can do to one call: fail it at a stage, or run the
\* code and deliver the log (whole or cut once, with or without prefixes)
ExecInputs ==
    {[stage |-> st, obj |-> ResultObject(TRUE, <<>>), fetched |-> <<>>] :
        st \in Stages \ {"none"}}
    \cup
    UNION {{[stage |-> "none", obj |-> obj, fetched |-> FetchedLogs(obj, ts, cut, d)] :
                ts \in BOOLEAN, cut \in {0, Len(Dumps(obj)) - 2}, d \in Deliveries} :
           obj \in RunResults}

\* the fault of a call as the environment injected it
Fault(stage, obj) ==
    IF stage # "none" THEN stage
    ELSE IF ~obj.success THEN "user_code" ELSE "none"

\* result["success"] raises on a parsed value that is no result object
SubscriptSuccess(result) == IF result.kind # "obj" THEN Raises ELSE Returned(result)

\* DokployClient.execute_code, the try block: a failing stage raises, else
\* the fetched logs are parsed
dokploy_execute_try(stage, fetched) ==
    IF stage # "none" THEN Raises ELSE SubscriptSuccess(_parse_logs(fetched).value)

\* DokployClient.execute_code: `except Exception` turns what the try block
\* raises into a failure result
dokploy_execute_code(stage, fetched) ==
    Caught(dokploy_execute_try(stage, fetched), DokployError)

\* app_name = f"python-agent-{uuid.uuid4()}": a name no earlier call used,
\* written as the number of the application
FreshName(apps) == Len(apps) + 1

\* _create_application answered: the platform made an application under the
\* name and gave it an id
Created(stage) == stage \notin {"create_application", "resolve_application"}

\* execute_code, step 3: every call asks the platform for an application
\* under its fresh name
applications_after(apps, stage) ==
    IF Created(stage)
    THEN Append(apps, [name |-> FreshName(apps), applicationId |-> FreshName(apps)])
    ELSE apps

\* _save_build_type(app_id) follows every creation that answered
build_type_calls_after(n, stage) == IF Created(stage) THEN n + 1 ELSE n

Succeeded(outcome) == IF outcome.raised THEN FALSE ELSE outcome.value.success

CallRecord(backend, outcome, fault) ==
    [backend |-> backend, raised |-> outcome.raised, value |-> outcome.value,
     fault |-> fault]

InitExec ==
    /\ plots_dir = {} /\ plot_calls = NoPlotCalls
    /\ repl_calls = 0 /\ plot_files = {} /\ repl_embedded = <<>> /\ repl_result = NoReplResult
    /\ step_prompt = NoPrompt /\ node_messages = <<>> /\ tool_log = <<>>
    /\ ws_received = <<>> /\ collected_logs = <<>> /\ fetch_pc = "idle"
    /\ fetch_ended = "none" /\ fetch_return = <<>>
    /\ poll_count = 0 /\ poll_status = "none" /\ monitor = "idle" /\ monitor_result = NoCall
    /\ harness = "none" /\ stream_queue = <<>> /\ graph_pc = "idle"
    /\ consumer_pc = "idle" /\ put_log = <<>> /\ received = <<>> /\ yielded = <<>>
    /\ compared = NotCompared
    /\ SESSION_CONTEXTS = NoSessions /\ sys_stdout = Console
    /\ requests = NoRequests /\ succeeded = NoneSucceeded /\ last_reset = NoReset
    /\ messages = <<>> /\ final = NotFinalized /\ fpc = "idle"
    /\ logs = <<>> /\ embedded = NoObj /\ parsed = NotCalled /\ ppc = "idle"
    /\ analysis_steps = <<>> /\ active_step_index = -1 /\ code_iterations = 0
    /\ last_message = NoMessage /\ node = "idle" /\ model_calls = 0
    /\ routed = NoDecision /\ trail = <<>>
    /\ code_history = <<>>
    /\ call_log = <<>>
    /\ bundle_code = NoBundle
    /\ last_call = NoCall
    /\ applications = <<>>
    /\ build_type_calls = 0

\* python_repl_tool within conversation `session`: get_dokploy_client()
\* returns the module-level client whoever asks, and the tool makes one call
\* of DokployClient.execute_code(code) on it
DokployExecute(session, code, stage, obj, fetched) ==
    /\ Len(call_log) < MaxCalls
    /\ last_call' = CallRecord("dokploy", dokploy_execute_code(stage, fetched),
                               Fault(stage, obj))
    /\ bundle_code' = IF stage \in StagesBeforeBundle THEN NoBundle
                      ELSE create_zip_bundle(current_execution_code(code_history, code))
    /\ code_history' = history_after(code_history, code, [success |-> Succeeded(last_call')])
    /\ call_log' = Append(call_log, [code |-> code, success |-> Succeeded(last_call'),
                                     session |-> session])
    /\ applications' = applications_after(applications, stage)
    /\ build_type_calls' = build_type_calls_after(build_type_calls, stage)
    /\ UNCHANGED not_rvars

\* reset_execution_context(): a fresh client replaces the shared one
ResetExecutionContext ==
    /\ call_log # <<>>
    /\ code_history' = <<>>
    /\ call_log' = <<>>
    /\ bundle_code' = NoBundle
    /\ applications' = <<>>
    /\ build_type_calls' = 0
    /\ UNCHANGED last_call
    /\ UNCHANGED not_rvars

----------------------------------------------------------------------------
(* The local backend: the /execute handler and its HTTP client *)

LocalResult(success) ==
    [kind |-> "obj", success |-> success, output |-> <<"x">>,
     error |-> IF success THEN "null" ELSE "user_error",
     plots |-> <<>>, tables |-> <<>>]

\* what running the request can meet on the server
ExecEvents == {"ok", "exception", "base_exception", "mkdir_error"}

\* sandbox_server.execute_code: the directories are made before the try
\* block, and `except Exception` catches what exec raises unless it is a
\* BaseException such as SystemExit
sandbox_server_execute_code(event) ==
    CASE event = "mkdir_error" -> Raises
      [] event = "base_exception" -> Raises
      [] event = "exception" -> Returned(LocalResult(FALSE))
      [] event = "ok" -> Returned(LocalResult(TRUE))

ClientFailure(msg) ==
    [kind |-> "obj", success |-> FALSE, output |-> <<>>, error |-> msg,
     plots |-> <<>>, tables |-> <<>>]

\* what the HTTP request of the client can meet
Transports == {"ok", "ConnectError", "TimeoutException", "OtherError"}

\* SandboxClient.execute_code: a handler that raised answers with a 5xx
\* status, which raise_for_status turns into an exception
sandbox_client_execute_code(transport, event) ==
    CASE transport = "ConnectError" -> Raises
      [] transport = "TimeoutException" ->
            Returned(ClientFailure("Code execution timed out after 120 seconds"))
      [] transport = "OtherError" ->
            Returned(ClientFailure("Error communicating with sandbox server"))
      [] transport = "ok" ->
            Caught(sandbox_server_execute_code(event),
                   ClientFailure("Error communicating with sandbox server"))

LocalFault(transport, event) ==
    IF transport # "ok" THEN transport ELSE IF event # "ok" THEN event ELSE "none"

\* one POST /execute handled by the server
ServerExecute(event) ==
    /\ last_call' = CallRecord("sandbox_server", sandbox_server_execute_code(event),
                               LocalFault("ok", event))
    /\ UNCHANGED <<code_history, call_log, bundle_code, applications, build_type_calls>>
    /\ UNCHANGED not_rvars

\* one call of SandboxClient.execute_code
SandboxClientExecute(transport, event) ==
    /\ last_call' = CallRecord("sandbox_client",
                               sandbox_client_execute_code(transport, event),
                               LocalFault(transport, event))
    /\ UNCHANGED <<code_history, call_log, bundle_code, applications, build_type_calls>>
    /\ UNCHANGED not_rvars

\* the conversations that can make the next call: the one that calls a new
\* client first is named s1
Callers(log) == IF log = <<>> THEN {"s1"} ELSE Sessions

NextExec ==
    \/ \E session \in Callers(call_log), code \in Snippets, i \in ExecInputs :
            DokployExecute(session, code, i.stage, i.obj, i.fetched)
    \/ ResetExecutionContext
    \/ \E event \in ExecEvents : ServerExecute(event)
    \/ \E transport \in Transports, event \in ExecEvents :
            SandboxClientExecute(transport, event)

SpecExec == InitExec /\ [][NextExec]_vars

NextParse == ParseLogsCall

SpecParse == InitParse /\ [][NextParse]_vars

----------------------------------------------------------------------------
(* Properties of _parse_logs, checked under SpecParse *)

\* C1: for every well-formed delivered log (start marker line, the JSON object
\* whole or split across lines, end marker line, every line possibly prefixed
\* by a timestamp and whitespace) _parse_logs returns exactly the embedded
\* object.
C1_RoundTrip ==
    (ppc = "done" /\ embedded # NoObj) => parsed = Returned(embedded)

MarkerAbsent(text) == ~Contains(text, start_marker) \/ ~Contains(text, end_marker)

\* C2: when the start marker or the end marker is absent from the log text,
\* _parse_logs does not raise and returns a result with success = false whose
\* output is the raw log text.
C2_MissingMarkerFails ==
    (ppc = "done" /\ MarkerAbsent(logs)) =>
        /\ ~parsed.raised
        /\ parsed.value.kind = "obj"
        /\ parsed.value.success = FALSE
        /\ parsed.value.output = logs

NothingCaptured(text) == ResultLines(text) = <<>>
CapturedUnparseable(text) ==
    ResultLines(text) # <<>> /\ Loads(JsonStr(ResultLines(text))) = RaisedValue

\* C3: _parse_logs never raises, and whenever nothing is captured between the
\* markers or the captured text is not parseable JSON it returns exactly the
\* synthetic failure {success: false, output: logs, error: "Failed to parse
\* execution result from logs", plots: [], tables: []}.
C3_NeverRaises ==
    ppc = "done" =>
        /\ ~parsed.raised
        /\ (NothingCaptured(logs) \/ CapturedUnparseable(logs)) =>
                parsed.value = FailureResult(logs)

\* a call on a log with both markers and unparseable text between them
C3_Witness ==
    /\ ppc = "done"
    /\ Contains(logs, start_marker) /\ Contains(logs, end_marker)
    /\ CapturedUnparseable(logs)
    /\ parsed = Returned(FailureResult(logs))

----------------------------------------------------------------------------
(* Properties of the execute calls, checked under SpecExec *)

\* the snippets of the calls of a log that returned success = true, in order
RECURSIVE Accepted(_)
Accepted(log) ==
    IF log = <<>> THEN <<>>
    ELSE IF Head(log).success THEN <<Head(log).code>> \o Accepted(Tail(log))
    ELSE Accepted(Tail(log))

Front(log) == SubSeq(log, 1, Len(log) - 1)
Last(log) == log[Len(log)]

\* C4: in every reachable state the code history of the remote client is, in
\* submission order, exactly the snippets of the execute calls that returned
\* success = true since the client was created or reset; a call that returned
\* success = false added nothing, and nothing was removed or reordered.
C4_HistoryIsAccepted == code_history = Accepted(call_log)

\* a success, then a failure, then a success: the history holds the first and
\* the third snippet
C4_Witness ==
    /\ Len(call_log) = 3
    /\ call_log[1].success /\ ~call_log[2].success /\ call_log[3].success
    /\ code_history = <<call_log[1].code, call_log[3].code>>

\* C5: the code in main.py of the bundle an execute call deploys is the
\* accepted history as it was before the call, in acceptance order, followed
\* by the new snippet; snippets of earlier failed calls are not in it.
C5_BundleReplaysHistory ==
    bundle_code # NoBundle =>
        EvalLiteral(bundle_code) =
            JoinNL(Append(Accepted(Front(call_log)), Last(call_log).code))

\* the third call deploys the first snippet and its own, the second call
\* having failed
C5_Witness ==
    /\ Len(call_log) = 3
    /\ call_log[1].success /\ ~call_log[2].success
    /\ call_log[2].code # call_log[1].code
    /\ bundle_code # NoBundle
    /\ EvalLiteral(bundle_code) = JoinNL(<<call_log[1].code, call_log[3].code>>)

IsFailureResult(v) == v.kind = "obj" /\ v.success = FALSE /\ v.error # "null"

\* C6: an execute call on any backend (DokployClient.execute_code,
\* SandboxClient.execute_code, the /execute handler) never raises to its
\* caller, and every failure of the code, container, platform or transport is
\* returned as a result with success = false and a populated error.
C6_ExecuteNeverRaises ==
    last_call.backend # "none" =>
        /\ ~last_call.raised
        /\ last_call.fault # "none" => IsFailureResult(last_call.value)

----------------------------------------------------------------------------
(* The coding subgraph: worker iterations, routing, tool execution *)

MaxIterations == 40     \* max_iterations of should_continue_coding
SoftThreshold == 10     \* the iteration count from which the notice is printed

\* the summary argument of a complete_step call; NoArg: the call has none
NoArg == "absent"
Summaries == {"s1", "s2", NoArg}

ToolCall(name, summary) == [name |-> name, summary |-> summary]
\* the tools whose branch awaits tool.ainvoke(tool_args), and the five names
\* tool_execution_node has a branch for
AwaitedTools == {"python_repl_tool", "bash_tool", "think_tool", "document_search_tool"}
KnownTools == AwaitedTools \cup {"complete_step"}

\* tool names the model answers with; unknown_tool is none of the five
OtherTools == {"python_repl_tool", "think_tool", "unknown_tool"}
ToolCalls ==
    {ToolCall(n, NoArg) : n \in OtherTools}
    \cup {ToolCall("complete_step", a) : a \in Summaries}

AIMessage(tool_calls) == [type |-> "ai", tool_calls |-> tool_calls]
HumanMessage == [type |-> "human", tool_calls |-> <<>>]
\* ToolMessage(content, tool_call_id, name); the id of a call is its position
\* in the response
ToolMessage(tool_call_id, name) ==
    [type |-> "tool", tool_calls |-> <<>>, tool_call_id |-> tool_call_id, name |-> name]

ToolEvent(event, id) == [event |-> event, id |-> id]

\* a node that starts call i without waiting for the call before it
create_task(log, i) ==
    IF log # <<>> /\ Last(log).event = "return"
    THEN Front(log) \o <<ToolEvent("start", i), Last(log), ToolEvent("return", i)>>
    ELSE log \o <<ToolEvent("start", i), ToolEvent("return", i)>>

\* result = await tool.ainvoke(tool_args): the call starts and the loop goes
\* on when it has returned
ainvoke(log, i) == log \o <<ToolEvent("start", i), ToolEvent("return", i)>>

\* what the model can answer: text only, one tool call, or two
Responses ==
    {AIMessage(<<>>)}
    \cup {AIMessage(<<c>>) : c \in ToolCalls}
    \cup {AIMessage(<<c, d>>) : c \in ToolCalls, d \in ToolCalls}

\* "complete_step" in [tc["name"] for tc in last_message.tool_calls]
CallsCompleteStep(message) ==
    \E i \in 1..Len(message.tool_calls) : message.tool_calls[i].name = "complete_step"

\* the routing function, with the tool-call test ahead of the hard limit
should_continue_tools_first(message, current_iteration, active) ==
    IF message.tool_calls # <<>>
    THEN (IF CallsCompleteStep(message) THEN "finalize_step" ELSE "execute_tools")
    ELSE IF current_iteration >= MaxIterations THEN "finalize"
    ELSE IF message.type = "ai"
    THEN (IF active >= 0 THEN "execute_tools" ELSE "finalize")
    ELSE "continue"

\* a routing function that finalizes on every response without tool calls
should_continue_finalizing_text(message, current_iteration, active) ==
    IF current_iteration >= MaxIterations THEN "finalize"
    ELSE IF message.tool_calls # <<>>
    THEN (IF CallsCompleteStep(message) THEN "finalize_step" ELSE "execute_tools")
    ELSE IF message.type = "ai" THEN "finalize"
    ELSE "continue"

\* should_continue_coding(state); the notice at SoftThreshold only prints
should_continue_coding(message, current_iteration, active) ==
    IF current_iteration >= MaxIterations THEN "finalize"
    ELSE IF message.tool_calls # <<>>
    THEN (IF CallsCompleteStep(message) THEN "finalize_step" ELSE "execute_tools")
    ELSE IF message.type = "ai"
    THEN (IF active >= 0 THEN "execute_tools" ELSE "finalize")
    ELSE "continue"

\* the path map of add_conditional_edges: a route that is no key of it makes
\* the graph raise
PathMap(route) ==
    CASE route = "execute_tools" -> "execute_tools"
      [] route = "finalize" -> "finalize"
      [] route = "continue" -> "coding_agent"
      [] OTHER -> "raised"

\* a completion that puts a new dict in the place of the active step
MarkCompletedReplacing(steps, active, summary) ==
    IF active >= 0 /\ active < Len(steps)
    THEN [steps EXCEPT ![active + 1] =
            [order |-> 0, description |-> "", assigned_agent |-> "General",
             status |-> "completed",
             result_summary |-> IF summary = NoArg THEN "Step completed." ELSE summary]]
    ELSE steps

\* steps[active_step_index]["status"] = "completed" and its result_summary,
\* when the index is one of the list
MarkCompleted(steps, active, summary) ==
    IF active >= 0 /\ active < Len(steps)
    THEN [steps EXCEPT
            ![active + 1].status = "completed",
            ![active + 1].result_summary =
                IF summary = NoArg THEN "Step completed." ELSE summary]
    ELSE steps

\* the loop of tool_execution_node over the tool calls: each awaited tool
\* answers with one message, a name without a branch is passed over,
\* complete_step updates the steps and returns at once
RECURSIVE RunToolCalls(_, _, _, _, _, _)
RunToolCalls(calls, i, steps, active, tool_msgs, log) ==
    IF i > Len(calls)
    THEN [messages |-> tool_msgs, analysis_steps |-> steps, completed |-> FALSE,
          log |-> log]
    ELSE IF calls[i].name = "complete_step"
    THEN [messages |-> Append(tool_msgs, ToolMessage(i, calls[i].name)),
          analysis_steps |-> MarkCompleted(steps, active, calls[i].summary),
          completed |-> active >= 0 /\ active < Len(steps),
          log |-> Append(log, ToolEvent("complete", i))]
    ELSE IF calls[i].name \in AwaitedTools
    THEN RunToolCalls(calls, i + 1, steps, active,
                      Append(tool_msgs, ToolMessage(i, calls[i].name)), ainvoke(log, i))
    ELSE RunToolCalls(calls, i + 1, steps, active, tool_msgs, log)

\* tool_execution_node(state): the state update it returns
tool_execution_node(message, steps, active) ==
    IF message.tool_calls = <<>>
    THEN [messages |-> IF active >= 0 THEN <<HumanMessage>> ELSE <<>>,
          analysis_steps |-> steps, completed |-> FALSE, log |-> <<>>]
    ELSE RunToolCalls(message.tool_calls, 1, steps, active, <<>>, <<>>)

\* the messages channel appends: the last message after an update
LastAfter(message, update) == IF update = <<>> THEN message ELSE update[Len(update)]

\* the plans planning_node hands over: every step pending, no summary
\* step i of a plan: its order, description and assigned agent
StepDescriptions == <<"d1", "d2", "d3">>
StepAgents == <<"General", "Excel", "Codebase">>
PendingStep(i) ==
    [order |-> i, description |-> StepDescriptions[i], assigned_agent |-> StepAgents[i],
     status |-> "pending", result_summary |-> ""]
Plans == {[i \in 1..n |-> PendingStep(i)] : n \in 0..MaxSteps}

\* the subgraph is entered after planning_node: active_step_index 0, the
\* counter at zero, the last message the user's
InitGraph ==
    /\ plots_dir = {} /\ plot_calls = NoPlotCalls
    /\ repl_calls = 0 /\ plot_files = {} /\ repl_embedded = <<>> /\ repl_result = NoReplResult
    /\ step_prompt = NoPrompt /\ node_messages = <<>> /\ tool_log = <<>>
    /\ ws_received = <<>> /\ collected_logs = <<>> /\ fetch_pc = "idle"
    /\ fetch_ended = "none" /\ fetch_return = <<>>
    /\ poll_count = 0 /\ poll_status = "none" /\ monitor = "idle" /\ monitor_result = NoCall
    /\ harness = "none" /\ stream_queue = <<>> /\ graph_pc = "idle"
    /\ consumer_pc = "idle" /\ put_log = <<>> /\ received = <<>> /\ yielded = <<>>
    /\ compared = NotCompared
    /\ SESSION_CONTEXTS = NoSessions /\ sys_stdout = Console
    /\ requests = NoRequests /\ succeeded = NoneSucceeded /\ last_reset = NoReset
    /\ messages = <<>> /\ final = NotFinalized /\ fpc = "idle"
    /\ logs = <<>> /\ embedded = NoObj /\ parsed = NotCalled /\ ppc = "idle"
    /\ code_history = <<>> /\ call_log = <<>> /\ bundle_code = <<>> /\ last_call = NoCall
    /\ applications = <<>> /\ build_type_calls = 0
    /\ analysis_steps \in Plans
    /\ active_step_index = 0
    /\ code_iterations = 0
    /\ last_message = HumanMessage
    /\ node = "coding_agent"
    /\ model_calls = 0
    /\ routed = NoDecision
    /\ trail = <<>>

\* coding_agent_node: one model invocation
CodingAgent(response) ==
    /\ node = "coding_agent"
    /\ last_message' = response
    /\ code_iterations' = code_iterations + 1
    /\ model_calls' = model_calls + 1
    /\ node' = "route"
    /\ node_messages' = <<>>
    /\ tool_log' = <<>>
    /\ UNCHANGED <<analysis_steps, active_step_index, routed, trail, step_prompt>>
    /\ UNCHANGED not_gvars_dvars

\* the conditional edge after coding_agent
Route ==
    /\ node = "route"
    /\ routed' = [route |-> should_continue_coding(last_message, code_iterations,
                                                  active_step_index),
                  iteration |-> code_iterations, message |-> last_message,
                  active |-> active_step_index]
    /\ node' = PathMap(routed'.route)
    /\ UNCHANGED <<analysis_steps, active_step_index, code_iterations, last_message,
                   model_calls, trail>>
    /\ UNCHANGED not_gvars

\* the node execute_tools and its edge back to coding_agent
ExecuteTools ==
    /\ node = "execute_tools"
    /\ analysis_steps' =
          tool_execution_node(last_message, analysis_steps, active_step_index).analysis_steps
    /\ last_message' =
          LastAfter(last_message,
                    tool_execution_node(last_message, analysis_steps,
                                        active_step_index).messages)
    /\ node_messages' =
          tool_execution_node(last_message, analysis_steps, active_step_index).messages
    /\ tool_log' = tool_execution_node(last_message, analysis_steps, active_step_index).log
    /\ node' = "coding_agent"
    /\ UNCHANGED <<active_step_index, code_iterations, model_calls, routed, trail,
                   step_prompt>>
    /\ UNCHANGED not_gvars_dvars

\* the node finalize and its edge to END
Finalize ==
    /\ node = "finalize"
    /\ last_message' = AIMessage(<<>>)
    /\ node' = "END"
    /\ UNCHANGED <<analysis_steps, active_step_index, code_iterations, model_calls,
                   routed, trail>>
    /\ UNCHANGED not_gvars

NextGraph ==
    \/ \E response \in Responses : CodingAgent(response)
    \/ Route
    \/ ExecuteTools
    \/ Finalize

SpecGraph == InitGraph /\ [][NextGraph]_vars

----------------------------------------------------------------------------
(* Properties of the coding subgraph as wired, checked under SpecGraph *)

\* C7: for every finite plan the loop of worker iterations and tool execution
\* reaches Finalizing after finitely many iterations: it never stops anywhere
\* but at END, which is entered from the finalize node only.
C7_LoopEndsInFinalizing == node = "END" \/ ENABLED NextGraph

\* C8: a routing decision taken at code_iterations >= 40 is "finalize"
\* whatever the last message holds, so the model is invoked at most 40 times
\* while the counter is not reset; from the soft threshold of 10 up to the cap
\* the decision is the one taken below the threshold.
C8_HardCapForcesFinalize ==
    /\ model_calls <= MaxIterations
    /\ routed # NoDecision =>
        /\ routed.iteration >= MaxIterations => routed.route = "finalize"
        /\ routed.iteration \in SoftThreshold..(MaxIterations - 1) =>
                routed.route = should_continue_coding(routed.message, SoftThreshold - 1,
                                                      routed.active)

\* the 40th response asks for complete_step after another tool call, and the
\* decision is "finalize"
C8_Witness ==
    /\ model_calls = MaxIterations
    /\ routed.iteration = MaxIterations
    /\ Len(routed.message.tool_calls) = 2
    /\ CallsCompleteStep(routed.message)
    /\ routed.route = "finalize"
    /\ node = "finalize"

StepIsCompleted(steps, active, summary) ==
    /\ steps[active + 1].status = "completed"
    /\ steps[active + 1].result_summary = summary

\* C9: once a response with a complete_step call has been routed while a step
\* is active and the cap is not reached, tool execution marks the active step
\* completed with the call's summary and control goes to the Step Dispatcher.
C9_CompleteStepReturnsToDispatcher ==
    (/\ routed # NoDecision
     /\ routed.iteration < MaxIterations
     /\ routed.message = AIMessage(<<ToolCall("complete_step", "s1")>>)
     /\ routed.active >= 0 /\ routed.active < Len(analysis_steps)) =>
        \/ node = "execute_tools"
        \/ /\ node = "task_dispatcher"
           /\ StepIsCompleted(analysis_steps, routed.active, "s1")

\* the subgraph's edges are taken: after execute_tools the worker runs, and a
\* worker that can be invoked is invoked
SpecGraphFair ==
    /\ SpecGraph
    /\ WF_vars(ExecuteTools)
    /\ WF_vars(\E response \in Responses : CodingAgent(response))

\* the last routing decision was taken below the cap, in a dispatcher-mode
\* session, on a response without tool calls
TextOnlyDecision ==
    /\ routed # NoDecision
    /\ routed.message = AIMessage(<<>>)
    /\ routed.active >= 0
    /\ routed.iteration < MaxIterations

\* the model has been invoked once more since that decision
InvokedAgain == node = "route" /\ model_calls = routed.iteration + 1

TextOnlyReprompted ==
    TextOnlyDecision =>
        /\ routed.route = "execute_tools"
        /\ \/ node = "execute_tools" /\ model_calls = routed.iteration
           \/ node = "coding_agent" /\ last_message = HumanMessage
                                   /\ model_calls = routed.iteration
           \/ InvokedAgain

\* C24: in a dispatcher-mode session below the cap a response without tool
\* calls is never routed to finalize: execute_tools appends the reminder, the
\* steps stay as they are, and the model is invoked again
C24_TextOnlyReprompted ==
    /\ []TextOnlyReprompted
    /\ [][(node = "execute_tools" /\ last_message.tool_calls = <<>>) =>
             /\ analysis_steps' = analysis_steps
             /\ last_message' = HumanMessage
             /\ node' = "coding_agent"]_vars
    /\ (TextOnlyDecision /\ node = "execute_tools") ~> InvokedAgain

\* the second response was text only as well as the first, and the model
\* has been invoked a third time with the active step still pending
C24_Witness ==
    /\ TextOnlyDecision
    /\ routed.iteration = 2
    /\ InvokedAgain
    /\ analysis_steps # <<>>
    /\ analysis_steps[active_step_index + 1].status = "pending"

----------------------------------------------------------------------------
(* The step dispatcher and the completion tool, applied to the plan state *)

Pending(steps) == {i \in 1..Len(steps) : steps[i].status = "pending"}

\* a dispatcher that takes the first step of the list whatever its status
next_step_index_ignoring_status(steps) == IF steps # <<>> THEN 0 ELSE -1

\* a search that keeps the last pending step it meets instead of the first
next_step_index_last_pending(steps) ==
    IF Pending(steps) # {}
    THEN (CHOOSE i \in Pending(steps) : \A j \in Pending(steps) : i >= j) - 1
    ELSE -1

\* the search for the first pending step: its 0-based index, -1 when the list
\* is empty or holds no pending step
next_step_index(steps) ==
    IF Pending(steps) # {}
    THEN (CHOOSE i \in Pending(steps) : \A j \in Pending(steps) : i <= j) - 1
    ELSE -1

\* the newest MaxTrail entries of the trail after one more
Push(t, entry) ==
    IF Len(t) < MaxTrail THEN Append(t, entry) ELSE Append(Tail(t), entry)

\* what the worker answers while a step is dispatched
StepResponses ==
    {AIMessage(<<>>), AIMessage(<<ToolCall("python_repl_tool", NoArg)>>)}
    \cup {AIMessage(<<ToolCall("complete_step", a)>>) : a \in Summaries}
    \cup {AIMessage(<<ToolCall("python_repl_tool", NoArg), ToolCall("unknown_tool", NoArg),
                      ToolCall("think_tool", NoArg), ToolCall("complete_step", "s1"),
                      ToolCall("python_repl_tool", NoArg)>>)}

\* the plan state as planning_node leaves it
InitDispatch ==
    /\ plots_dir = {} /\ plot_calls = NoPlotCalls
    /\ repl_calls = 0 /\ plot_files = {} /\ repl_embedded = <<>> /\ repl_result = NoReplResult
    /\ step_prompt = NoPrompt /\ node_messages = <<>> /\ tool_log = <<>>
    /\ ws_received = <<>> /\ collected_logs = <<>> /\ fetch_pc = "idle"
    /\ fetch_ended = "none" /\ fetch_return = <<>>
    /\ poll_count = 0 /\ poll_status = "none" /\ monitor = "idle" /\ monitor_result = NoCall
    /\ harness = "none" /\ stream_queue = <<>> /\ graph_pc = "idle"
    /\ consumer_pc = "idle" /\ put_log = <<>> /\ received = <<>> /\ yielded = <<>>
    /\ compared = NotCompared
    /\ SESSION_CONTEXTS = NoSessions /\ sys_stdout = Console
    /\ requests = NoRequests /\ succeeded = NoneSucceeded /\ last_reset = NoReset
    /\ messages = <<>> /\ final = NotFinalized /\ fpc = "idle"
    /\ logs = <<>> /\ embedded = NoObj /\ parsed = NotCalled /\ ppc = "idle"
    /\ code_history = <<>> /\ call_log = <<>> /\ bundle_code = <<>> /\ last_call = NoCall
    /\ applications = <<>> /\ build_type_calls = 0
    /\ analysis_steps \in Plans
    /\ active_step_index = 0
    /\ code_iterations = 0
    /\ last_message = HumanMessage
    /\ node = "idle"
    /\ model_calls = 0
    /\ routed = NoDecision
    /\ trail = <<>>

\* the pipelines and the names they answer to, lower-cased
PipelineNames == {"excel", "document", "powerpoint", "code", "codebase"}

\* str.lower() on the agent names of the plans
Lower(name) ==
    CASE name = "Excel" -> "excel"
      [] name = "General" -> "general"
      [] name = "Codebase" -> "codebase"
      [] OTHER -> name

\* a registry that finds the pipeline of a name
get_pipeline_by_name_found(name) ==
    IF name \in PipelineNames THEN Returned(name) ELSE Raises

\* registry.get_pipeline_by_name(assigned_agent): PipelineRegistry defines
\* register, unregister, get_pipeline (by extension), get_pipeline_for_file
\* and the listing methods, and no get_pipeline_by_name: the attribute
\* lookup raises AttributeError
get_pipeline_by_name(name) == Raises

\* pipeline.get_coding_user_prompt(): the template of the pipeline; the
\* code pipeline's method returns None
get_coding_user_prompt(pipeline) == IF pipeline = "code" THEN "" ELSE pipeline

\* the try/except around the lookup: the pipeline's prompts, or the default
\* system prompt and no template
StepPrompts(agent) ==
    IF get_pipeline_by_name(agent).raised
    THEN [sys_prompt |-> "CODING_AGENT_SYS_PROMPT", user_prompt_template |-> ""]
    ELSE [sys_prompt |-> get_pipeline_by_name(agent).value,
          user_prompt_template |-> get_coding_user_prompt(get_pipeline_by_name(agent).value)]

\* context_summary: order, description and result summary of the completed
\* steps, in list order
RECURSIVE context_summary(_)
context_summary(steps) ==
    IF steps = <<>> THEN <<>>
    ELSE (IF Head(steps).status = "completed"
          THEN <<StrOf(Head(steps).order), Head(steps).description,
                 Head(steps).result_summary>>
          ELSE <<>>) \o context_summary(Tail(steps))

\* the user prompt: the template formatted with the step's description and
\* the data context, or the simple prompt with the history of the steps
formatted_user_prompt(template, steps, current_step) ==
    IF template # ""
    THEN <<template, current_step.description, "data_context">>
    ELSE <<"user_query", "data_context">> \o context_summary(steps)
            \o <<"ACTION REQUIRED", StrOf(current_step.order), current_step.description>>

\* the SystemMessage / HumanMessage pair task_dispatcher_node returns
dispatch_prompt(steps, current_step) ==
    [system |-> <<StepPrompts(Lower(current_step.assigned_agent)).sys_prompt,
                  "CURRENT TASK ONLY", Lower(current_step.assigned_agent),
                  StrOf(current_step.order), current_step.description>>,
     user |-> formatted_user_prompt(
                  StepPrompts(Lower(current_step.assigned_agent)).user_prompt_template,
                  steps, current_step)]

\* task_dispatcher_node(state): with a pending step it activates the step,
\* replaces the prompts and resets the counter; without, it returns -1 only
DispatcherNode ==
    /\ active_step_index' = next_step_index(analysis_steps)
    /\ IF active_step_index' = -1
       THEN UNCHANGED <<last_message, code_iterations, step_prompt>>
       ELSE /\ last_message' = HumanMessage
            /\ code_iterations' = 0
            /\ step_prompt' =
                  dispatch_prompt(analysis_steps, analysis_steps[active_step_index' + 1])
    /\ trail' = Push(trail, "dispatch")
    /\ UNCHANGED <<analysis_steps, node, model_calls, routed, node_messages, tool_log>>
    /\ UNCHANGED not_gvars_dvars

\* coding_agent_node(state) below the cap
WorkerNode(response) ==
    /\ code_iterations < MaxIterations
    /\ last_message' = response
    /\ code_iterations' = code_iterations + 1
    /\ node_messages' = <<>>
    /\ tool_log' = <<>>
    /\ UNCHANGED <<analysis_steps, active_step_index, node, model_calls, routed, trail,
                   step_prompt>>
    /\ UNCHANGED not_gvars_dvars

\* tool_execution_node(state)
ToolExecutionNode ==
    /\ analysis_steps' =
          tool_execution_node(last_message, analysis_steps, active_step_index).analysis_steps
    /\ last_message' =
          LastAfter(last_message,
                    tool_execution_node(last_message, analysis_steps,
                                        active_step_index).messages)
    /\ trail' =
          IF tool_execution_node(last_message, analysis_steps, active_step_index).completed
          THEN Push(trail, "complete") ELSE trail
    /\ node_messages' =
          tool_execution_node(last_message, analysis_steps, active_step_index).messages
    /\ tool_log' = tool_execution_node(last_message, analysis_steps, active_step_index).log
    /\ UNCHANGED <<active_step_index, code_iterations, node, model_calls, routed,
                   step_prompt>>
    /\ UNCHANGED not_gvars_dvars

NextDispatch ==
    \/ DispatcherNode
    \/ \E response \in StepResponses : WorkerNode(response)
    \/ ToolExecutionNode

SpecDispatch == InitDispatch /\ [][NextDispatch]_vars

Completed(steps) == {i \in 1..Len(steps) : steps[i].status = "completed"}

\* C10: a completed step stays completed under every node, a further
\* complete_step on it included, and the dispatcher never activates a
\* completed step: the step it activates, if any, is pending.
C10_CompletionIdempotent ==
    [][/\ Completed(analysis_steps) \subseteq Completed(analysis_steps')
       /\ DispatcherNode => (active_step_index' + 1) \notin Completed(analysis_steps')]_vars

\* the first step was completed twice and then the dispatcher ran: the step
\* is completed and not active
C10_Witness ==
    /\ trail = <<"complete", "complete", "dispatch">>
    /\ 1 \in Completed(analysis_steps)
    /\ active_step_index # 0

\* C11: each dispatch activates the first step, in list order, whose status
\* is pending and resets the iteration counter to 0; with an empty plan or no
\* pending step it activates none: active_step_index = -1.
C11_DispatchFirstPending ==
    [][DispatcherNode =>
        IF Pending(analysis_steps) = {}
        THEN active_step_index' = -1
        ELSE /\ (active_step_index' + 1) \in Pending(analysis_steps)
             /\ \A j \in 1..active_step_index' : j \notin Pending(analysis_steps)
             /\ code_iterations' = 0]_vars

\* the dispatcher ran last, after the first step was completed: the second
\* step, pending, is the active one and the counter is at zero
C11_Witness ==
    /\ trail # <<>> /\ trail[Len(trail)] = "dispatch"
    /\ Len(analysis_steps) = 2
    /\ Completed(analysis_steps) = {1}
    /\ active_step_index = 1
    /\ code_iterations = 0

\* `text` holds the description of the step followed by its result summary
Recounts(text, step) ==
    \E i \in 1..(Len(text) - 1) :
        text[i] = step.description /\ text[i + 1] = step.result_summary

PlannedFields(steps) ==
    \A i \in 1..Len(steps) :
        /\ steps[i].order = i
        /\ steps[i].description = StepDescriptions[i]
        /\ steps[i].assigned_agent = StepAgents[i]

\* C28: no node adds, removes or reorders steps or changes a step's order,
\* description or assigned agent; a step changes only at active_step_index,
\* and only in status and result_summary; a complete_step with
\* active_step_index outside 0..len(steps)-1 changes no step
C28_OnlyActiveStepChanges ==
    /\ []PlannedFields(analysis_steps)
    /\ [][/\ Len(analysis_steps') = Len(analysis_steps)
          /\ \A i \in 1..Len(analysis_steps) :
                /\ analysis_steps'[i].order = analysis_steps[i].order
                /\ analysis_steps'[i].description = analysis_steps[i].description
                /\ analysis_steps'[i].assigned_agent = analysis_steps[i].assigned_agent
                /\ analysis_steps'[i] # analysis_steps[i] => i = active_step_index + 1]_vars

\* complete_step ran while no step was active (index -1): both steps are as
\* their own completions left them
C28_Witness ==
    /\ active_step_index = -1
    /\ tool_log = <<ToolEvent("complete", 1)>>
    /\ Len(analysis_steps) = 2
    /\ analysis_steps[1].result_summary = "s1"
    /\ analysis_steps[2].result_summary = "s2"
    /\ PlannedFields(analysis_steps)

\* the position of the first complete_step call, Len + 1 without one
FirstComplete(calls) ==
    IF \E i \in 1..Len(calls) : calls[i].name = "complete_step"
    THEN CHOOSE i \in 1..Len(calls) :
            /\ calls[i].name = "complete_step"
            /\ \A j \in 1..(i - 1) : calls[j].name # "complete_step"
    ELSE Len(calls) + 1

\* the calls the node reaches that name one of the five tools
Answered(calls) ==
    {i \in 1..Len(calls) : i <= FirstComplete(calls) /\ calls[i].name \in KnownTools}

\* every start is followed at once by the return of the same call, and the
\* calls come in call order
Sequential(log) ==
    \A k \in 1..Len(log) :
        /\ log[k].event = "start" =>
              k < Len(log) /\ log[k + 1] = ToolEvent("return", log[k].id)
        /\ log[k].event = "return" =>
              k > 1 /\ log[k - 1] = ToolEvent("start", log[k].id)
        /\ \A j \in 1..(k - 1) : log[j].id <= log[k].id

\* one message per answered call, with the call's id and name, in call order
AnsweredInOrder(calls, msgs) ==
    /\ {msgs[k].tool_call_id : k \in 1..Len(msgs)} = Answered(calls)
    /\ Len(msgs) = Cardinality(Answered(calls))
    /\ \A k \in 1..Len(msgs) :
          /\ msgs[k] = ToolMessage(msgs[k].tool_call_id, calls[msgs[k].tool_call_id].name)
          /\ \A j \in 1..(k - 1) : msgs[j].tool_call_id < msgs[k].tool_call_id

\* C30: tool_execution_node runs the tool calls of a response one after the
\* other in call order, a call starting only after the one before returned;
\* it returns one tool message with the call's id for each call it reached
\* that names one of the five tools, in the same order; calls after a
\* complete_step call are not run and get no message
C30_ToolCallsSequential ==
    [][(ToolExecutionNode /\ last_message.tool_calls # <<>>) =>
          /\ Sequential(tool_log')
          /\ {tool_log'[k].id : k \in 1..Len(tool_log')} =
                Answered(last_message.tool_calls)
          /\ AnsweredInOrder(last_message.tool_calls, node_messages')]_vars

\* the response asked for the run-code tool, an unknown tool, the think tool,
\* complete_step and the run-code tool again: calls 1 and 3 ran in turn, call
\* 4 completed the step, messages 1, 3 and 4 were returned
C30_Witness ==
    /\ tool_log = <<ToolEvent("start", 1), ToolEvent("return", 1), ToolEvent("start", 3),
                    ToolEvent("return", 3), ToolEvent("complete", 4)>>
    /\ node_messages = <<ToolMessage(1, "python_repl_tool"), ToolMessage(3, "think_tool"),
                         ToolMessage(4, "complete_step")>>
    /\ last_message = ToolMessage(4, "complete_step")

----------------------------------------------------------------------------
(* finalize_analysis_node: artifacts from the tool results, and the insight *)

MaxHistory == 2     \* messages of the history handed to finalization

\* the content of a tool message as ast.literal_eval reads it: text that is
\* no literal, a literal that is no dict, or the dict of an execution result
RawText == [kind |-> "text", plots |-> <<>>, tables |-> <<>>]
NonDict == [kind |-> "list", plots |-> <<>>, tables |-> <<>>]
ResultDict(plots, tables) == [kind |-> "dict", plots |-> plots, tables |-> tables]

Table(name, markdown) == [name |-> name, markdown |-> markdown]

\* the plots and tables lists of the execution results in a history
PlotLists ==
    {<<>>, <<"p1">>, <<"p2", "p1">>, <<"p1", "p1">>}
TableLists ==
    {<<>>, <<Table("t1", "m1")>>, <<Table("t1", "m2"), Table("t2", "m1")>>,
     <<Table("t2", "m1"), Table("t2", "m1")>>}

ToolResult(name, content) == [type |-> "tool", name |-> name, content |-> content]
\* a model message: its content longer than 200 characters or not, with
\* tool calls or without
ModelMessage(long, calls) ==
    [type |-> "ai", name |-> "ai", content |-> [kind |-> "text", long |-> long],
     tool_calls |-> calls]

HistoryMessages ==
    {ToolResult("python_repl_tool", ResultDict(ps, ts)) : ps \in PlotLists, ts \in TableLists}
    \cup {ToolResult("python_repl_tool", RawText), ToolResult("python_repl_tool", NonDict),
          ToolResult("bash_tool", ResultDict(<<"p3">>, <<>>))}
    \cup {ModelMessage(long, calls) : long \in BOOLEAN,
                                     calls \in {<<>>, <<ToolCall("python_repl_tool", NoArg)>>}}

Histories == SeqsUpTo(HistoryMessages, MaxHistory)

IsRunCodeResult(msg) == msg.type = "tool" /\ msg.name = "python_repl_tool"
IsModelMessage(msg) == msg.type = "ai"

PlotArtifact(plot_path) == [type |-> "plot", id |-> "none", content |-> plot_path]
TableArtifact(table) ==
    [type |-> "table", id |-> <<"table_", table.name>>, content |-> table.markdown]
InsightArtifact(text) == [type |-> "insight", id |-> "none", content |-> text]

\* a plot appended without the test for an artifact of the same path
add_plot_unchecked(artifacts, plot_path) == Append(artifacts, PlotArtifact(plot_path))

\* if not any(a["content"] == plot_path for a in artifacts if a["type"] == "plot")
add_plot(artifacts, plot_path) ==
    IF \E i \in 1..Len(artifacts) :
            artifacts[i].type = "plot" /\ artifacts[i].content = plot_path
    THEN artifacts
    ELSE Append(artifacts, PlotArtifact(plot_path))

\* if not any(a.get("id") == table_id for a in artifacts if a["type"] == "table")
add_table(artifacts, table) ==
    IF \E i \in 1..Len(artifacts) :
            artifacts[i].type = "table" /\ artifacts[i].id = <<"table_", table.name>>
    THEN artifacts
    ELSE Append(artifacts, TableArtifact(table))

RECURSIVE AddPlots(_, _)
AddPlots(artifacts, plots) ==
    IF plots = <<>> THEN artifacts
    ELSE AddPlots(add_plot(artifacts, Head(plots)), Tail(plots))

RECURSIVE AddTables(_, _)
AddTables(artifacts, tables) ==
    IF tables = <<>> THEN artifacts
    ELSE AddTables(add_table(artifacts, Head(tables)), Tail(tables))

\* the loop over the run-code tool messages: content that does not evaluate
\* to a dict is skipped
RECURSIVE ExtractArtifacts(_, _)
ExtractArtifacts(tool_messages, artifacts) ==
    IF tool_messages = <<>> THEN artifacts
    ELSE IF Head(tool_messages).content.kind # "dict"
    THEN ExtractArtifacts(Tail(tool_messages), artifacts)
    ELSE ExtractArtifacts(Tail(tool_messages),
                          AddTables(AddPlots(artifacts, Head(tool_messages).content.plots),
                                    Head(tool_messages).content.tables))

\* hasattr(message, "tool_calls"): every AIMessage has the attribute
HasToolCallsAttribute(message) == message.type = "ai"

\* the last model message is taken as the summary when it is long and has no
\* tool_calls attribute
UsesLastResponse(ai_messages) ==
    /\ ai_messages # <<>>
    /\ ai_messages[Len(ai_messages)].content.long
    /\ ~HasToolCallsAttribute(ai_messages[Len(ai_messages)])

\* final_analysis_text: the last response, the generated summary, or the
\* fallback compiled when the summary call raises
final_analysis_text(ai_messages, tool_messages, cleanup) ==
    IF UsesLastResponse(ai_messages) THEN "last_response"
    ELSE IF cleanup = "ok" THEN "generated_summary"
    ELSE IF tool_messages # <<>> THEN "compiled_tool_results"
    ELSE "Analysis completed but no conversational summary was generated."

\* an insight that is left out when no summary could be generated
with_insight_unless_fallback(artifacts, text) ==
    IF text \in {"generated_summary", "last_response"}
    THEN Append(artifacts, InsightArtifact(text)) ELSE artifacts

\* artifacts.append({"type": "insight", ...})
with_insight(artifacts, text) == Append(artifacts, InsightArtifact(text))

\* the artifacts finalize_analysis_node returns
finalize_artifacts(msgs, cleanup) ==
    with_insight(ExtractArtifacts(SelectSeq(msgs, IsRunCodeResult), <<>>),
                 final_analysis_text(SelectSeq(msgs, IsModelMessage),
                                     SelectSeq(msgs, IsRunCodeResult), cleanup))

\* whether the summary call is made: "none" when the last response is used
CleanupOutcome(msgs, outcome) ==
    IF UsesLastResponse(SelectSeq(msgs, IsModelMessage)) THEN "none" ELSE outcome

InitFinalize ==
    /\ plots_dir = {} /\ plot_calls = NoPlotCalls
    /\ repl_calls = 0 /\ plot_files = {} /\ repl_embedded = <<>> /\ repl_result = NoReplResult
    /\ step_prompt = NoPrompt /\ node_messages = <<>> /\ tool_log = <<>>
    /\ ws_received = <<>> /\ collected_logs = <<>> /\ fetch_pc = "idle"
    /\ fetch_ended = "none" /\ fetch_return = <<>>
    /\ poll_count = 0 /\ poll_status = "none" /\ monitor = "idle" /\ monitor_result = NoCall
    /\ harness = "none" /\ stream_queue = <<>> /\ graph_pc = "idle"
    /\ consumer_pc = "idle" /\ put_log = <<>> /\ received = <<>> /\ yielded = <<>>
    /\ compared = NotCompared
    /\ SESSION_CONTEXTS = NoSessions /\ sys_stdout = Console
    /\ requests = NoRequests /\ succeeded = NoneSucceeded /\ last_reset = NoReset
    /\ logs = <<>> /\ embedded = NoObj /\ parsed = NotCalled /\ ppc = "idle"
    /\ code_history = <<>> /\ call_log = <<>> /\ bundle_code = <<>> /\ last_call = NoCall
    /\ applications = <<>> /\ build_type_calls = 0
    /\ analysis_steps = <<>> /\ active_step_index = -1 /\ code_iterations = 0
    /\ last_message = NoMessage /\ node = "idle" /\ model_calls = 0
    /\ routed = NoDecision /\ trail = <<>>
    /\ messages \in Histories
    /\ final = NotFinalized
    /\ fpc = "ready"

\* finalize_analysis_node(state); the summary call answers or raises
FinalizeAnalysis(outcome) ==
    /\ fpc = "ready"
    /\ final' = [artifacts |-> finalize_artifacts(messages, outcome),
                 cleanup |-> CleanupOutcome(messages, outcome)]
    /\ fpc' = "done"
    /\ UNCHANGED messages
    /\ UNCHANGED not_fvars

NextFinalize == \E outcome \in {"ok", "raises"} : FinalizeAnalysis(outcome)

SpecFinalize == InitFinalize /\ [][NextFinalize]_vars

----------------------------------------------------------------------------
(* Claims on finalization *)

\* the execution results among the messages: run-code tool messages whose
\* content evaluates to a dict
ResultIndexes(msgs) ==
    {i \in 1..Len(msgs) : IsRunCodeResult(msgs[i]) /\ msgs[i].content.kind = "dict"}
PlotPathsIn(msgs) ==
    UNION {{msgs[i].content.plots[k] : k \in 1..Len(msgs[i].content.plots)} :
              i \in ResultIndexes(msgs)}
TableNamesIn(msgs) ==
    UNION {{msgs[i].content.tables[k].name : k \in 1..Len(msgs[i].content.tables)} :
              i \in ResultIndexes(msgs)}
PlotsAt(artifacts, plot_path) ==
    {i \in 1..Len(artifacts) :
        artifacts[i].type = "plot" /\ artifacts[i].content = plot_path}
TablesAt(artifacts, name) ==
    {i \in 1..Len(artifacts) :
        artifacts[i].type = "table" /\ artifacts[i].id = <<"table_", name>>}

\* C12: in the artifacts finalization returns, no two plot artifacts have the
\* same path and no two table artifacts the same table name, and every plot
\* path and table name of a run-code result in the history appears exactly once
C12_ArtifactsDeduplicated ==
    fpc = "done" =>
        /\ \A i, j \in 1..Len(final.artifacts) :
              /\ final.artifacts[i].type = "plot"
              /\ final.artifacts[j].type = "plot"
              /\ final.artifacts[i].content = final.artifacts[j].content
              => i = j
        /\ \A i, j \in 1..Len(final.artifacts) :
              /\ final.artifacts[i].type = "table"
              /\ final.artifacts[j].type = "table"
              /\ final.artifacts[i].id = final.artifacts[j].id
              => i = j
        /\ \A plot_path \in PlotPathsIn(messages) :
              Cardinality(PlotsAt(final.artifacts, plot_path)) = 1
        /\ \A name \in TableNamesIn(messages) :
              Cardinality(TablesAt(final.artifacts, name)) = 1

\* two execution results that share a plot path and a table name were finalized
C12_Witness ==
    /\ fpc = "done"
    /\ Len(messages) = 2
    /\ ResultIndexes(messages) = {1, 2}
    /\ messages[1].content.plots = <<"p1">>
    /\ messages[2].content.plots = <<"p2", "p1">>
    /\ messages[1].content.tables = <<Table("t1", "m1")>>
    /\ messages[2].content.tables = <<Table("t1", "m2"), Table("t2", "m1")>>
    /\ Len(final.artifacts) = 5

InsightIndexes(artifacts) == {i \in 1..Len(artifacts) : artifacts[i].type = "insight"}

\* C13: the artifacts finalization returns hold exactly one insight, after
\* every plot and table, also without tool results, after a forced
\* finalization and when the summary call raises
C13_OneInsightLast ==
    fpc = "done" =>
        /\ Cardinality(InsightIndexes(final.artifacts)) = 1
        /\ final.artifacts[Len(final.artifacts)].type = "insight"

\* the summary call raised, the history holds no tool result and ends with a
\* model message that still asks for a tool
C13_Witness ==
    /\ fpc = "done"
    /\ final.cleanup = "raises"
    /\ Len(messages) = 2
    /\ \A i \in 1..2 : messages[i].type = "ai"
    /\ messages[2].tool_calls # <<>>
    /\ Len(final.artifacts) = 1
    /\ final.artifacts[1].type = "insight"

LastModelMessage(msgs) ==
    SelectSeq(msgs, IsModelMessage)[Len(SelectSeq(msgs, IsModelMessage))]

\* the last model response is a long freeform message: more than 200
\* characters, no tool calls
LongFreeform(msgs) ==
    /\ SelectSeq(msgs, IsModelMessage) # <<>>
    /\ LastModelMessage(msgs).content.long
    /\ LastModelMessage(msgs).tool_calls = <<>>

\* C26: at finalization the insight is the last model response itself, and
\* no summarization call is made, when that response is a long freeform
\* message; otherwise the insight is generated by one summarization call
C26_LongResponseIsInsight ==
    fpc = "done" =>
        IF LongFreeform(messages)
        THEN /\ final.cleanup = "none"
             /\ final.artifacts[Len(final.artifacts)] = InsightArtifact("last_response")
        ELSE final.cleanup # "none"

----------------------------------------------------------------------------
(* Claims on the deployment handle of the remote executor *)

\* C14: the remote client creates its application at the first execute call
\* only; every later call reuses that application (same id, same internal
\* name), and saveBuildType is requested once, at creation
C14_ApplicationCreatedOnce ==
    /\ Len(applications) <= 1
    /\ build_type_calls = Len(applications)
    /\ \A i, j \in 1..Len(applications) :
          applications[i].applicationId = applications[j].applicationId

\* the calls of a log that one conversation made
RECURSIVE OfSession(_, _)
OfSession(log, session) ==
    IF log = <<>> THEN <<>>
    ELSE IF Head(log).session = session
    THEN <<Head(log)>> \o OfSession(Tail(log), session)
    ELSE OfSession(Tail(log), session)

\* C15: a session's code history is owned by its session id: the program a
\* call deploys replays the accepted snippets of the calling session alone,
\* whatever calls the other session made
C15_HistoryOwnedBySession ==
    (call_log # <<>> /\ bundle_code # NoBundle) =>
        EvalLiteral(bundle_code) =
            JoinNL(Append(Accepted(OfSession(Front(call_log), Last(call_log).session)),
                          Last(call_log).code))

----------------------------------------------------------------------------
(* The local interpreter service: /execute and /reset, request by request *)

\* the statements of the submitted code, one per line
Statements == {"x=1", "y=x*2", "print(y)", "raise"}
Codes ==
    {<<"x=1">>, <<"y=x*2">>, <<"y=x*2", "print(y)">>, <<"x=1", "raise">>, <<"print(y)">>}

Ran(names, out) == [names |-> names, out |-> out, raises |-> FALSE]
Raised(names) == [names |-> names, out |-> <<>>, raises |-> TRUE]

\* exec of one top-level statement on a binding set: reading a name that is
\* not bound raises NameError
ExecStatement(stmt, names) ==
    CASE stmt = "x=1" -> Ran([names EXCEPT !["x"] = 1], <<>>)
      [] stmt = "y=x*2" ->
            IF names["x"] = 0 THEN Raised(names)
            ELSE Ran([names EXCEPT !["y"] = 2 * names["x"]], <<>>)
      [] stmt = "print(y)" ->
            IF names["y"] = 0 THEN Raised(names) ELSE Ran(names, <<StrOf(names["y"])>>)
      [] stmt = "raise" -> Raised(names)

\* the names the statements of a code bind
BoundBy(code) ==
    {n \in VarNames : \E i \in 1..Len(code) :
        \/ n = "x" /\ code[i] = "x=1"
        \/ n = "y" /\ code[i] = "y=x*2"}

EmptyContext == [plots_dir |-> "unset", tables_dir |-> "unset", names |-> Unbound]
WithRequestDirs(context) ==
    [context EXCEPT !.plots_dir = "PLOTS_DIR/uuid", !.tables_dir = "TABLES_DIR/uuid"]
SeededContext == [plots_dir |-> "PLOTS_DIR", tables_dir |-> "TABLES_DIR", names |-> Unbound]

\* a binding set made anew for every request
context_per_request(contexts, session) ==
    [contexts EXCEPT ![session] = WithRequestDirs(EmptyContext)]

\* /execute: the session's binding set, created empty when the id is new,
\* with the directories of the request written into it
get_or_create_context(contexts, session) ==
    [contexts EXCEPT ![session] =
        WithRequestDirs(IF @ = NoContext THEN EmptyContext ELSE @)]

\* a reset that forgets the session id
reset_session_removing(contexts, session) ==
    [contexts EXCEPT ![session] = NoContext]

\* /reset: a known session gets the seeded binding set, an unknown id nothing
reset_session(contexts, session) ==
    IF contexts[session] # NoContext
    THEN [contexts EXCEPT ![session] = SeededContext]
    ELSE contexts

\* /reset answers success = True in both branches
reset_reply(contexts, session) ==
    [session |-> session, success |-> TRUE,
     message |-> IF contexts[session] # NoContext
                 THEN "reset successfully" ELSE "did not exist (nothing to reset)"]

\* print(...) while sys.stdout names `stream`
WriteTo(reqs, stream, text) ==
    IF stream = Console THEN reqs
    ELSE [reqs EXCEPT ![stream].buffer = @ \o text]

InFlight(session) ==
    \E c \in RequestIds :
        requests[c].pc \in {"exec", "returning", "failing"} /\ requests[c].session = session

InitLocal ==
    /\ plots_dir = {} /\ plot_calls = NoPlotCalls
    /\ repl_calls = 0 /\ plot_files = {} /\ repl_embedded = <<>> /\ repl_result = NoReplResult
    /\ step_prompt = NoPrompt /\ node_messages = <<>> /\ tool_log = <<>>
    /\ ws_received = <<>> /\ collected_logs = <<>> /\ fetch_pc = "idle"
    /\ fetch_ended = "none" /\ fetch_return = <<>>
    /\ poll_count = 0 /\ poll_status = "none" /\ monitor = "idle" /\ monitor_result = NoCall
    /\ harness = "none" /\ stream_queue = <<>> /\ graph_pc = "idle"
    /\ consumer_pc = "idle" /\ put_log = <<>> /\ received = <<>> /\ yielded = <<>>
    /\ compared = NotCompared
    /\ messages = <<>> /\ final = NotFinalized /\ fpc = "idle"
    /\ logs = <<>> /\ embedded = NoObj /\ parsed = NotCalled /\ ppc = "idle"
    /\ code_history = <<>> /\ call_log = <<>> /\ bundle_code = <<>> /\ last_call = NoCall
    /\ applications = <<>> /\ build_type_calls = 0
    /\ analysis_steps = <<>> /\ active_step_index = -1 /\ code_iterations = 0
    /\ last_message = NoMessage /\ node = "idle" /\ model_calls = 0
    /\ routed = NoDecision /\ trail = <<>>
    /\ SESSION_CONTEXTS = NoSessions
    /\ sys_stdout = Console
    /\ requests = NoRequests
    /\ succeeded = NoneSucceeded
    /\ last_reset = NoReset

\* POST /execute, up to the await: the handler takes the session's binding
\* set, prints its progress lines, saves sys.stdout and installs its StringIO.
\* Callers serialize the calls of one session.
ExecuteEnter(c, session, code) ==
    /\ requests[c].pc = "idle"
    /\ \A d \in RequestIds : d < c => requests[d].pc # "idle"
    /\ ~InFlight(session)
    /\ SESSION_CONTEXTS' = get_or_create_context(SESSION_CONTEXTS, session)
    /\ sys_stdout' = c
    /\ requests' = [WriteTo(requests, sys_stdout, <<"h">>) EXCEPT ![c] =
            [pc |-> "exec", session |-> session, code |-> code, ip |-> 1,
             old_stdout |-> sys_stdout, buffer |-> <<>>, printed |-> <<>>,
             failed_at |-> 0, seen |-> succeeded[session], result |-> NoResult]]
    /\ UNCHANGED <<succeeded, last_reset>>
    /\ UNCHANGED not_lvars

\* the worker thread of asyncio.to_thread(exec, ...) runs the next statement
\* of the code on the session's binding set; what it prints goes to the
\* stream sys.stdout names at that moment
ExecStep(c) ==
    /\ requests[c].pc = "exec"
    /\ SESSION_CONTEXTS' = [SESSION_CONTEXTS EXCEPT ![requests[c].session].names =
            ExecStatement(requests[c].code[requests[c].ip], @).names]
    /\ requests' =
        [WriteTo(requests, sys_stdout,
                 ExecStatement(requests[c].code[requests[c].ip],
                               SESSION_CONTEXTS[requests[c].session].names).out)
         EXCEPT ![c].printed = @ \o
                    ExecStatement(requests[c].code[requests[c].ip],
                                  SESSION_CONTEXTS[requests[c].session].names).out,
                ![c].pc =
                    IF ExecStatement(requests[c].code[requests[c].ip],
                                     SESSION_CONTEXTS[requests[c].session].names).raises
                    THEN "failing"
                    ELSE IF requests[c].ip = Len(requests[c].code) THEN "returning"
                    ELSE "exec",
                ![c].failed_at =
                    IF ExecStatement(requests[c].code[requests[c].ip],
                                     SESSION_CONTEXTS[requests[c].session].names).raises
                    THEN requests[c].ip ELSE 0,
                ![c].ip = IF @ < Len(requests[c].code) THEN @ + 1 ELSE @]
    /\ UNCHANGED <<sys_stdout, succeeded, last_reset>>
    /\ UNCHANGED not_lvars

\* POST /execute, after the await or in `except Exception`: the output is
\* what the request's StringIO holds, and sys.stdout is set back to the
\* stream the handler saved
ExecuteReturn(c) ==
    /\ requests[c].pc \in {"returning", "failing"}
    /\ sys_stdout' = requests[c].old_stdout
    /\ requests' = [requests EXCEPT
            ![c].pc = "done",
            ![c].result = [success |-> requests[c].pc = "returning",
                           output |-> requests[c].buffer]]
    /\ succeeded' =
        IF requests[c].pc = "returning"
        THEN [succeeded EXCEPT ![requests[c].session] = @ \cup BoundBy(requests[c].code)]
        ELSE succeeded
    /\ UNCHANGED <<SESSION_CONTEXTS, last_reset>>
    /\ UNCHANGED not_lvars

\* POST /reset for a session that has no request in flight
ResetSession(session) ==
    /\ ~InFlight(session)
    /\ IF sys_stdout = Console THEN TRUE
       ELSE Len(requests[sys_stdout].buffer) < MaxCaptured
    /\ SESSION_CONTEXTS' = reset_session(SESSION_CONTEXTS, session)
    /\ requests' = IF SESSION_CONTEXTS[session] # NoContext
                   THEN WriteTo(requests, sys_stdout, <<"h">>) ELSE requests
    /\ succeeded' = [succeeded EXCEPT ![session] = {}]
    /\ last_reset' = reset_reply(SESSION_CONTEXTS, session)
    /\ UNCHANGED sys_stdout
    /\ UNCHANGED not_lvars

NextLocal ==
    \/ \E c \in RequestIds, session \in Sessions, code \in Codes :
            ExecuteEnter(c, session, code)
    \/ \E c \in RequestIds : ExecStep(c)
    \/ \E c \in RequestIds : ExecuteReturn(c)
    \/ \E session \in Sessions : ResetSession(session)

SpecLocal == InitLocal /\ [][NextLocal]_vars

----------------------------------------------------------------------------
(* Claims on the local interpreter service *)

\* C16: when the execute calls of two different sessions overlap, each
\* result's output is exactly the text its own code printed, and once both
\* have returned sys.stdout is again the stream installed before either began
C16_OverlappingCallsIndependent ==
    (/\ \A c \in RequestIds : requests[c].pc = "done"
     /\ \A c, d \in RequestIds : c # d => requests[c].session # requests[d].session)
    => /\ \A c \in RequestIds : requests[c].result.output = requests[c].printed
       /\ sys_stdout = Console

\* C17: a name bound by an execute call that returned success = true stays
\* bound in the session's binding set until the session is reset, and a later
\* call of the session that reads it does not fail on the read
C17_BindingsPersist ==
    /\ \A s \in Sessions : \A n \in succeeded[s] : SESSION_CONTEXTS[s].names[n] # 0
    /\ \A c \in RequestIds :
          (/\ requests[c].pc \in {"returning", "failing", "done"}
           /\ requests[c].code[1] = "y=x*2"
           /\ "x" \in requests[c].seen)
          => requests[c].failed_at # 1

\* the test: x is bound in one call, y = x * 2 computed in the next call of
\* the session, and both succeed
C17_Witness ==
    /\ requests[1].pc = "done" /\ requests[2].pc = "done"
    /\ requests[1].session = requests[2].session
    /\ requests[1].code = <<"x=1">> /\ requests[1].result.success
    /\ requests[2].code = <<"y=x*2">> /\ requests[2].result.success
    /\ requests[2].old_stdout = Console
    /\ SESSION_CONTEXTS[requests[2].session].names["y"] = 2

\* C18: reset(s) replaces the binding set of a known session by one holding
\* only the seeded directory paths, keeps the id in the session map and
\* leaves every other binding set unchanged; for an id without a session it
\* reports success and changes nothing
C18_ResetReseedsSession ==
    [][\A s \in Sessions : ResetSession(s) =>
          /\ \A t \in Sessions \ {s} : SESSION_CONTEXTS'[t] = SESSION_CONTEXTS[t]
          /\ last_reset'.session = s /\ last_reset'.success
          /\ IF SESSION_CONTEXTS[s] # NoContext
             THEN /\ SESSION_CONTEXTS'[s] # NoContext
                  /\ SESSION_CONTEXTS'[s].names = [n \in VarNames |-> 0]
                  /\ SESSION_CONTEXTS'[s].plots_dir = "PLOTS_DIR"
                  /\ SESSION_CONTEXTS'[s].tables_dir = "TABLES_DIR"
             ELSE SESSION_CONTEXTS' = SESSION_CONTEXTS]_vars

\* a session that held bindings was reset while the other session holds its own
C18_Witness ==
    /\ last_reset.session = "s1"
    /\ last_reset.message = "reset successfully"
    /\ succeeded["s1"] = {}
    /\ SESSION_CONTEXTS["s1"] = SeededContext
    /\ requests[1].session = "s1" /\ requests[1].result.success
    /\ requests[1].code = <<"x=1">>
    /\ SESSION_CONTEXTS["s2"].names["x"] = 1

----------------------------------------------------------------------------
(* The same snippets on both backends: replay in a fresh container against
   one persistent local session *)

\* the text of a code: its statements, one per line
SnippetText(code) == JoinNL([i \in 1..Len(code) |-> <<code[i]>>])
IsStatement(token) == token # "N"
StatementsOf(text) == SelectSeq(text, IsStatement)

\* exec(code, ...) with stdout captured: the statements run in order until
\* one raises; what was bound and printed before stays
RECURSIVE RunStatements(_, _, _)
RunStatements(stmts, names, out) ==
    IF stmts = <<>> THEN [success |-> TRUE, output |-> out, names |-> names]
    ELSE IF ExecStatement(Head(stmts), names).raises
    THEN [success |-> FALSE, output |-> out, names |-> names]
    ELSE RunStatements(Tail(stmts), ExecStatement(Head(stmts), names).names,
                       out \o ExecStatement(Head(stmts), names).out)

\* the entrypoint of the container: exec(user_code, globals()) on the
\* program of the bundle, in a process that has run nothing before
remote_execute(history, text) ==
    RunStatements(StatementsOf(EvalLiteral(create_zip_bundle(
                      current_execution_code(history, text)))),
                  Unbound, <<>>)

\* /execute of the local service with no other request in flight
local_execute(names, text) == RunStatements(StatementsOf(text), names, <<>>)

TheSession == "s1"

InitReplay ==
    /\ plots_dir = {} /\ plot_calls = NoPlotCalls
    /\ repl_calls = 0 /\ plot_files = {} /\ repl_embedded = <<>> /\ repl_result = NoReplResult
    /\ step_prompt = NoPrompt /\ node_messages = <<>> /\ tool_log = <<>>
    /\ ws_received = <<>> /\ collected_logs = <<>> /\ fetch_pc = "idle"
    /\ fetch_ended = "none" /\ fetch_return = <<>>
    /\ poll_count = 0 /\ poll_status = "none" /\ monitor = "idle" /\ monitor_result = NoCall
    /\ harness = "none" /\ stream_queue = <<>> /\ graph_pc = "idle"
    /\ consumer_pc = "idle" /\ put_log = <<>> /\ received = <<>> /\ yielded = <<>>
    /\ messages = <<>> /\ final = NotFinalized /\ fpc = "idle"
    /\ logs = <<>> /\ embedded = NoObj /\ parsed = NotCalled /\ ppc = "idle"
    /\ analysis_steps = <<>> /\ active_step_index = -1 /\ code_iterations = 0
    /\ last_message = NoMessage /\ node = "idle" /\ model_calls = 0
    /\ routed = NoDecision /\ trail = <<>>
    /\ sys_stdout = Console /\ requests = NoRequests
    /\ succeeded = NoneSucceeded /\ last_reset = NoReset
    /\ last_call = NoCall /\ applications = <<>> /\ build_type_calls = 0
    /\ code_history = <<>>
    /\ call_log = <<>>
    /\ bundle_code = NoBundle
    /\ SESSION_CONTEXTS = NoSessions
    /\ compared = NotCompared

\* one snippet submitted to both backends: DokployClient.execute_code on a
\* platform that answers every request, and /execute for one session
ExecuteOnBoth(code) ==
    /\ Len(call_log) < MaxCalls
    /\ compared' = [remote |-> remote_execute(code_history, SnippetText(code)),
                    local |-> local_execute(
                        get_or_create_context(SESSION_CONTEXTS, TheSession)[TheSession].names,
                        SnippetText(code))]
    /\ bundle_code' = create_zip_bundle(
                          current_execution_code(code_history, SnippetText(code)))
    /\ code_history' = history_after(code_history, SnippetText(code), compared'.remote)
    /\ call_log' = Append(call_log, [code |-> SnippetText(code),
                                     success |-> compared'.remote.success,
                                     session |-> TheSession])
    /\ applications' = applications_after(applications, "none")
    /\ build_type_calls' = build_type_calls_after(build_type_calls, "none")
    /\ SESSION_CONTEXTS' =
        [get_or_create_context(SESSION_CONTEXTS, TheSession)
            EXCEPT ![TheSession].names = compared'.local.names]
    /\ UNCHANGED <<last_call, sys_stdout, requests, succeeded, last_reset>>
    /\ UNCHANGED <<pvars, gvars, fvars, qvars, mvars, wvars, dvars, tvars, kvars>>

NextReplay == \E code \in Codes : ExecuteOnBoth(code)

SpecReplay == InitReplay /\ [][NextReplay]_vars

\* C19: for side-effect-free snippets, every call through the remote
\* executor returns the same success flag and output, and ends with the same
\* bindings, as the same snippet on one persistent local session
C19_BackendsAgree ==
    /\ compared.remote.success = compared.local.success
    /\ compared.remote.output = compared.local.output
    /\ compared.remote.names = compared.local.names

----------------------------------------------------------------------------
(* The progress-event queue: run_graph puts, the response stream reads *)

\* what is put on the queue: the status events of the nodes (serializable
\* to JSON or not), the error event of run_graph, and None
StatusEvent(id, ok) == [type |-> "status", id |-> id, ok |-> ok]
ErrorEvent == [type |-> "error", id |-> 0, ok |-> TRUE]
None == [type |-> "None", id |-> 0, ok |-> TRUE]

\* the status events the nodes of the invoked graph can put: up to MaxEvents
\* under chat_stream, the one of node_a under verify_queue
EventLimit(h) == IF h = "chat_stream" THEN MaxEvents ELSE 1
NodeEvents(h) == Len(SelectSeq(put_log, LAMBDA item : item.type = "status"))

\* a task that ends without signalling
finally_without_sentinel(queue) == queue

\* finally: await stream_queue.put(None)
finally_put_sentinel(queue) == Append(queue, None)

InitQueue ==
    /\ plots_dir = {} /\ plot_calls = NoPlotCalls
    /\ repl_calls = 0 /\ plot_files = {} /\ repl_embedded = <<>> /\ repl_result = NoReplResult
    /\ step_prompt = NoPrompt /\ node_messages = <<>> /\ tool_log = <<>>
    /\ ws_received = <<>> /\ collected_logs = <<>> /\ fetch_pc = "idle"
    /\ fetch_ended = "none" /\ fetch_return = <<>>
    /\ poll_count = 0 /\ poll_status = "none" /\ monitor = "idle" /\ monitor_result = NoCall
    /\ messages = <<>> /\ final = NotFinalized /\ fpc = "idle"
    /\ logs = <<>> /\ embedded = NoObj /\ parsed = NotCalled /\ ppc = "idle"
    /\ code_history = <<>> /\ call_log = <<>> /\ bundle_code = <<>> /\ last_call = NoCall
    /\ applications = <<>> /\ build_type_calls = 0
    /\ analysis_steps = <<>> /\ active_step_index = -1 /\ code_iterations = 0
    /\ last_message = NoMessage /\ node = "idle" /\ model_calls = 0
    /\ routed = NoDecision /\ trail = <<>>
    /\ SESSION_CONTEXTS = NoSessions /\ sys_stdout = Console
    /\ requests = NoRequests /\ succeeded = NoneSucceeded /\ last_reset = NoReset
    /\ compared = NotCompared
    /\ harness \in {"chat_stream", "verify_queue"}
    /\ stream_queue = <<>>
    /\ graph_pc = "running"
    /\ consumer_pc = "waiting"
    /\ put_log = <<>>
    /\ received = <<>>
    /\ yielded = <<>>

\* a node of the invoked graph: await queue.put(data) on the unbounded queue
NodePut(ok) ==
    /\ graph_pc = "running"
    /\ NodeEvents(harness) < EventLimit(harness)
    /\ harness = "verify_queue" => ok
    /\ stream_queue' = Append(stream_queue, StatusEvent(NodeEvents(harness) + 1, ok))
    /\ put_log' = Append(put_log, StatusEvent(NodeEvents(harness) + 1, ok))
    /\ UNCHANGED <<harness, graph_pc, consumer_pc, received, yielded>>
    /\ UNCHANGED not_qvars

\* graph.ainvoke returns; the graph of verify_queue returns after node_a
GraphReturns ==
    /\ graph_pc = "running"
    /\ harness = "verify_queue" => NodeEvents(harness) = 1
    /\ graph_pc' = "returned"
    /\ UNCHANGED <<harness, stream_queue, consumer_pc, put_log, received, yielded>>
    /\ UNCHANGED not_qvars

\* graph.ainvoke raises, out of a node or out of the routing
GraphRaises ==
    /\ graph_pc = "running"
    /\ harness = "chat_stream"
    /\ graph_pc' = "raised"
    /\ UNCHANGED <<harness, stream_queue, consumer_pc, put_log, received, yielded>>
    /\ UNCHANGED not_qvars

\* run_graph, except Exception: the error event is put
RunGraphExcept ==
    /\ graph_pc = "raised"
    /\ stream_queue' = Append(stream_queue, ErrorEvent)
    /\ put_log' = Append(put_log, ErrorEvent)
    /\ graph_pc' = "handled"
    /\ UNCHANGED <<harness, consumer_pc, received, yielded>>
    /\ UNCHANGED not_qvars

\* run_graph, finally (chat_stream) or the statement after ainvoke
\* (verify_queue): None is put and the task ends
RunGraphFinally ==
    /\ graph_pc \in {"returned", "handled"}
    /\ stream_queue' = finally_put_sentinel(stream_queue)
    /\ put_log' = finally_put_sentinel(put_log)
    /\ graph_pc' = "finished"
    /\ UNCHANGED <<harness, consumer_pc, received, yielded>>
    /\ UNCHANGED not_qvars

\* the reading loop: item = await queue.get(); None breaks the loop, any
\* other item is serialized and yielded, or dropped when json.dumps raises
ConsumerGet ==
    /\ consumer_pc = "waiting"
    /\ stream_queue # <<>>
    /\ stream_queue' = Tail(stream_queue)
    /\ received' = Append(received, Head(stream_queue))
    /\ consumer_pc' = IF Head(stream_queue) = None THEN "stopped" ELSE "waiting"
    /\ yielded' = IF Head(stream_queue) # None /\ Head(stream_queue).ok
                  THEN Append(yielded, Head(stream_queue)) ELSE yielded
    /\ UNCHANGED <<harness, graph_pc, put_log>>
    /\ UNCHANGED not_qvars

\* await task, after the loop
ConsumerAwaitTask ==
    /\ consumer_pc = "stopped"
    /\ graph_pc = "finished"
    /\ consumer_pc' = "complete"
    /\ UNCHANGED <<harness, stream_queue, graph_pc, put_log, received, yielded>>
    /\ UNCHANGED not_qvars

NextQueue ==
    \/ \E ok \in BOOLEAN : NodePut(ok)
    \/ GraphReturns
    \/ GraphRaises
    \/ RunGraphExcept
    \/ RunGraphFinally
    \/ ConsumerGet
    \/ ConsumerAwaitTask

SpecQueue == InitQueue /\ [][NextQueue]_vars

\* the event loop resumes a coroutine that can go on: the handlers of
\* run_graph after the invocation ended, and the reading loop when the queue
\* holds an item. Nothing makes the graph invocation itself end.
SpecQueueFair ==
    /\ SpecQueue
    /\ WF_vars(RunGraphExcept)
    /\ WF_vars(RunGraphFinally)
    /\ WF_vars(ConsumerGet)
    /\ WF_vars(ConsumerAwaitTask)

IsPrefix(s, t) == Len(s) <= Len(t) /\ SubSeq(t, 1, Len(s)) = s
Sentinels(log) == {i \in 1..Len(log) : log[i] = None}

\* what is read is what was put, in order; None is put at most once, last,
\* after an error event when the invocation raised; and the loop stops only
\* after reading every event put before None
QueueDelivery ==
    /\ IsPrefix(received, put_log)
    /\ Cardinality(Sentinels(put_log)) <= 1
    /\ Sentinels(put_log) \subseteq {Len(put_log)}
    /\ graph_pc = "finished" <=> Sentinels(put_log) # {}
    /\ (Sentinels(put_log) # {} /\ harness = "chat_stream"
            /\ \E i \in 1..Len(put_log) : put_log[i] = ErrorEvent)
          => put_log[Len(put_log) - 1] = ErrorEvent
    /\ graph_pc = "handled" => put_log[Len(put_log)] = ErrorEvent
    /\ consumer_pc \in {"stopped", "complete"} =>
          received = put_log /\ received[Len(received)] = None

\* C20: every event a node puts is read in put order before None; None is
\* put exactly once, after all node events, and after an error event when
\* the invocation raised; so the reading loop ends whenever the invocation ends
C20_QueueDeliversThenEnds ==
    /\ []QueueDelivery
    /\ (graph_pc \in {"returned", "raised"}) ~> (consumer_pc \in {"stopped", "complete"})

\* the invocation raised after two events: the loop read both, the error
\* event and None, and ended
C20_Witness ==
    /\ harness = "chat_stream"
    /\ consumer_pc = "complete"
    /\ Len(received) = 4
    /\ received[1].type = "status" /\ received[2].type = "status"
    /\ received[3] = ErrorEvent
    /\ received[4] = None

----------------------------------------------------------------------------
(* _monitor_deployment: the status poll loop inside execute_code *)

PollBound == 60     \* for i in range(60)

\* what one status request meets: the status of the latest deployment, an
\* empty deployment list, or a request that raises (network, socket)
PollOutcomes == {"done", "error", "running", "no_deployment", "transport"}

\* a loop that keeps polling after an error status
after_poll_error_retried(status, count) ==
    CASE status = "done" -> "returned"
      [] status = "transport" -> "transport_error"
      [] OTHER -> IF count = PollBound THEN "deployment_timeout" ELSE "polling"

\* the loop body at the poll that makes `count` requests in all: return on
\* done, raise on error; the request's own exception is not caught; after
\* the last round the loop falls through to raise "Deployment timed out"
after_poll(status, count) ==
    CASE status = "done" -> "returned"
      [] status = "error" -> "deployment_error"
      [] status = "transport" -> "transport_error"
      [] OTHER -> IF count = PollBound THEN "deployment_timeout" ELSE "polling"

MonitorRaised == {"deployment_error", "deployment_timeout", "transport_error"}

InitMonitor ==
    /\ plots_dir = {} /\ plot_calls = NoPlotCalls
    /\ repl_calls = 0 /\ plot_files = {} /\ repl_embedded = <<>> /\ repl_result = NoReplResult
    /\ step_prompt = NoPrompt /\ node_messages = <<>> /\ tool_log = <<>>
    /\ ws_received = <<>> /\ collected_logs = <<>> /\ fetch_pc = "idle"
    /\ fetch_ended = "none" /\ fetch_return = <<>>
    /\ messages = <<>> /\ final = NotFinalized /\ fpc = "idle"
    /\ logs = <<>> /\ embedded = NoObj /\ parsed = NotCalled /\ ppc = "idle"
    /\ code_history = <<>> /\ call_log = <<>> /\ bundle_code = <<>> /\ last_call = NoCall
    /\ applications = <<>> /\ build_type_calls = 0
    /\ analysis_steps = <<>> /\ active_step_index = -1 /\ code_iterations = 0
    /\ last_message = NoMessage /\ node = "idle" /\ model_calls = 0
    /\ routed = NoDecision /\ trail = <<>>
    /\ SESSION_CONTEXTS = NoSessions /\ sys_stdout = Console
    /\ requests = NoRequests /\ succeeded = NoneSucceeded /\ last_reset = NoReset
    /\ compared = NotCompared
    /\ harness = "none" /\ stream_queue = <<>> /\ graph_pc = "idle"
    /\ consumer_pc = "idle" /\ put_log = <<>> /\ received = <<>> /\ yielded = <<>>
    /\ poll_count = 0
    /\ poll_status = "none"
    /\ monitor = "polling"
    /\ monitor_result = NoCall

\* one round of the loop: GET deployment.all and the tests on its answer
Poll(status) ==
    /\ monitor = "polling"
    /\ poll_count < PollBound
    /\ poll_count' = poll_count + 1
    /\ poll_status' = status
    /\ monitor' = after_poll(status, poll_count + 1)
    /\ UNCHANGED monitor_result
    /\ UNCHANGED not_mvars

\* execute_code, except Exception: what the monitor raised becomes the
\* failure result of the call
ExecuteCatchesMonitor ==
    /\ monitor \in MonitorRaised
    /\ monitor_result = NoCall
    /\ monitor_result' = CallRecord("dokploy", dokploy_execute_code(monitor, <<>>), monitor)
    /\ UNCHANGED <<poll_count, poll_status, monitor>>
    /\ UNCHANGED not_mvars

NextMonitor ==
    \/ \E status \in PollOutcomes : Poll(status)
    \/ ExecuteCatchesMonitor

SpecMonitor == InitMonitor /\ [][NextMonitor]_vars

\* the state of the loop against the last answer and the number of polls
MonitorOutcome ==
    /\ poll_count <= PollBound
    /\ poll_status = "done" <=> monitor = "returned"
    /\ poll_status = "error" <=> monitor = "deployment_error"
    /\ monitor = "deployment_timeout" <=>
          (poll_count = PollBound /\ poll_status \in {"running", "no_deployment"})
    /\ (monitor = "polling" /\ poll_count > 0) => poll_status \in {"running", "no_deployment"}
    /\ monitor_result # NoCall =>
          /\ monitor \in MonitorRaised
          /\ ~monitor_result.raised
          /\ monitor_result.value.success = FALSE

\* C21: the loop makes at most 60 polls; it returns at the first poll whose
\* status is done, raises the deployment error at the first poll whose status
\* is error and polls no more, raises the timeout after the 60th poll
\* otherwise; execute_code returns either error as a success = false result
C21_PollLoopBounded ==
    /\ []MonitorOutcome
    /\ [][monitor # "polling" => poll_count' = poll_count]_vars

\* sixty polls met no final status and the call returned the timeout as a
\* failure result
C21_Witness ==
    /\ poll_count = PollBound
    /\ monitor = "deployment_timeout"
    /\ monitor_result # NoCall
    /\ monitor_result.fault = "deployment_timeout"
    /\ monitor_result.value.success = FALSE

\* C22: a transport failure during a poll is retried on the following
\* polls; the call fails only when the poll bound is exhausted, with the
\* deployment timeout
C22_TransportRetried ==
    /\ (poll_status = "transport" /\ poll_count < PollBound) => monitor = "polling"
    /\ monitor_result # NoCall =>
          (monitor_result.fault = "deployment_error"
           \/ (monitor_result.fault = "deployment_timeout" /\ poll_count = PollBound))

----------------------------------------------------------------------------
(* _fetch_logs: the reader of the container's log socket *)

MaxMessages == 3    \* messages the log socket delivers before it closes

\* a marker is two tokens, so that a frame boundary can fall inside it
StartHalves == <<"S1", "S2">>
EndHalves == <<"E1", "E2">>

\* `marker in text`
HasMarker(text, halves) ==
    \E i \in 1..(Len(text) - 1) : text[i] = halves[1] /\ text[i + 1] = halves[2]

\* frames the socket delivers: text frames, and one binary frame
TextFrames ==
    {<<"x">>, <<"S1">>, <<"S2", "j">>, <<"S1", "S2", "j">>,
     <<"E1">>, <<"E2">>, <<"E1", "E2">>}
Frames ==
    [kind : {"text"}, data : TextFrames] \cup {[kind |-> "bytes", data |-> <<"S1", "S2">>]}

\* str(message): a text frame is itself, a binary frame turns into its repr
Str(message) ==
    IF message.kind = "text" THEN message.data
    ELSE <<"b'">> \o message.data \o <<"'">>

\* a reader that looks for the markers in the message just read
both_markers_in_message(collected, message) ==
    HasMarker(Str(message), StartHalves) /\ HasMarker(Str(message), EndHalves)

\* the test after collected_logs += str(message): both markers are in the
\* accumulated text
both_markers(collected, message) ==
    /\ HasMarker(collected \o Str(message), StartHalves)
    /\ HasMarker(collected \o Str(message), EndHalves)

InitFetch ==
    /\ plots_dir = {} /\ plot_calls = NoPlotCalls
    /\ repl_calls = 0 /\ plot_files = {} /\ repl_embedded = <<>> /\ repl_result = NoReplResult
    /\ step_prompt = NoPrompt /\ node_messages = <<>> /\ tool_log = <<>>
    /\ poll_count = 0 /\ poll_status = "none" /\ monitor = "idle" /\ monitor_result = NoCall
    /\ messages = <<>> /\ final = NotFinalized /\ fpc = "idle"
    /\ logs = <<>> /\ embedded = NoObj /\ parsed = NotCalled /\ ppc = "idle"
    /\ code_history = <<>> /\ call_log = <<>> /\ bundle_code = <<>> /\ last_call = NoCall
    /\ applications = <<>> /\ build_type_calls = 0
    /\ analysis_steps = <<>> /\ active_step_index = -1 /\ code_iterations = 0
    /\ last_message = NoMessage /\ node = "idle" /\ model_calls = 0
    /\ routed = NoDecision /\ trail = <<>>
    /\ SESSION_CONTEXTS = NoSessions /\ sys_stdout = Console
    /\ requests = NoRequests /\ succeeded = NoneSucceeded /\ last_reset = NoReset
    /\ compared = NotCompared
    /\ harness = "none" /\ stream_queue = <<>> /\ graph_pc = "idle"
    /\ consumer_pc = "idle" /\ put_log = <<>> /\ received = <<>> /\ yielded = <<>>
    /\ ws_received = <<>>
    /\ collected_logs = <<>>
    /\ fetch_pc = "connecting"
    /\ fetch_ended = "none"
    /\ fetch_return = <<>>

\* websockets.connect: the socket opens, or the connection fails and the
\* outer except prints it; then the text is written to a file and returned
Connect(ok) ==
    /\ fetch_pc = "connecting"
    /\ fetch_pc' = IF ok THEN "reading" ELSE "returned"
    /\ fetch_ended' = IF ok THEN "none" ELSE "connect_failed"
    /\ fetch_return' = collected_logs
    /\ UNCHANGED <<ws_received, collected_logs>>
    /\ UNCHANGED not_wvars

\* one round of `async for message in websocket`
Receive(message) ==
    /\ fetch_pc = "reading"
    /\ Len(ws_received) < MaxMessages
    /\ ws_received' = Append(ws_received, message)
    /\ collected_logs' = collected_logs \o Str(message)
    /\ IF both_markers(collected_logs, message)
       THEN /\ fetch_pc' = "returned"
            /\ fetch_ended' = "markers"
            /\ fetch_return' = collected_logs'
       ELSE UNCHANGED <<fetch_pc, fetch_ended, fetch_return>>
    /\ UNCHANGED not_wvars

\* the iteration ends: the socket closed (normally, or ConnectionClosed is
\* passed over), or another exception reached the outer except
StreamEnds(how) ==
    /\ fetch_pc = "reading"
    /\ fetch_pc' = "returned"
    /\ fetch_ended' = how
    /\ fetch_return' = collected_logs
    /\ UNCHANGED <<ws_received, collected_logs>>
    /\ UNCHANGED not_wvars

NextFetch ==
    \/ \E ok \in BOOLEAN : Connect(ok)
    \/ \E message \in Frames : Receive(message)
    \/ \E how \in {"closed", "failed"} : StreamEnds(how)

SpecFetch == InitFetch /\ [][NextFetch]_vars

RECURSIVE StrAll(_)
StrAll(frames) ==
    IF frames = <<>> THEN <<>> ELSE Str(Head(frames)) \o StrAll(Tail(frames))

BothIn(text) == HasMarker(text, StartHalves) /\ HasMarker(text, EndHalves)

FetchOutcome ==
    /\ collected_logs = StrAll(ws_received)
    /\ fetch_pc \in {"connecting", "reading", "returned"}
    /\ fetch_pc = "reading" => ~BothIn(collected_logs)
    /\ fetch_ended = "markers" <=> BothIn(collected_logs)
    /\ fetch_ended = "markers" =>
          ~BothIn(StrAll(SubSeq(ws_received, 1, Len(ws_received) - 1)))
    /\ fetch_pc = "returned" => fetch_return = collected_logs

----------------------------------------------------------------------------
(* python_repl_tool: the embedded images of a result become files *)

MaxPlots == 2        \* images embedded in one execution result
MaxReplCalls == 3    \* calls of python_repl_tool

\* an embedded image: a base64 payload that decodes, or one that does not
Payload(data, valid) == [kind |-> "b64", data |-> data, valid |-> valid]
Payloads == {Payload("a", TRUE), Payload("b", TRUE), Payload("x", FALSE)}

\* what client.execute_code returns: a result with its plots list; the
\* tables of a remote result are empty
ReplInputs == {[plots |-> ps, tables |-> <<>>] : ps \in SeqsUpTo(Payloads, MaxPlots)}

\* a file name that leaves out the index of the image
plot_path_without_index(request_uuid, i) ==
    [kind |-> "path", dir |-> request_uuid, index |-> 0]

\* plots_dir / f"plot_{request_uuid}_{i}.png", plots_dir = .vdb/plots/<uuid>
plot_path(request_uuid, i) == [kind |-> "path", dir |-> request_uuid, index |-> i]

\* the loop over enumerate(result["plots"]): a payload that decodes is
\* written and its path appended; one that raises is printed and passed over
RECURSIVE save_plots(_, _, _)
save_plots(plots, request_uuid, i) ==
    IF i >= Len(plots) THEN <<>>
    ELSE (IF plots[i + 1].valid THEN <<plot_path(request_uuid, i)>> ELSE <<>>)
            \o save_plots(plots, request_uuid, i + 1)

\* saved_plots: empty when result.get("plots") is empty
saved_plots(plots, request_uuid) ==
    IF plots = <<>> THEN <<>> ELSE save_plots(plots, request_uuid, 0)

Range(seq) == {seq[k] : k \in 1..Len(seq)}

InitRepl ==
    /\ plots_dir = {} /\ plot_calls = NoPlotCalls
    /\ poll_count = 0 /\ poll_status = "none" /\ monitor = "idle" /\ monitor_result = NoCall
    /\ messages = <<>> /\ final = NotFinalized /\ fpc = "idle"
    /\ logs = <<>> /\ embedded = NoObj /\ parsed = NotCalled /\ ppc = "idle"
    /\ code_history = <<>> /\ call_log = <<>> /\ bundle_code = <<>> /\ last_call = NoCall
    /\ applications = <<>> /\ build_type_calls = 0
    /\ analysis_steps = <<>> /\ active_step_index = -1 /\ code_iterations = 0
    /\ last_message = NoMessage /\ node = "idle" /\ model_calls = 0
    /\ routed = NoDecision /\ trail = <<>>
    /\ SESSION_CONTEXTS = NoSessions /\ sys_stdout = Console
    /\ requests = NoRequests /\ succeeded = NoneSucceeded /\ last_reset = NoReset
    /\ compared = NotCompared
    /\ harness = "none" /\ stream_queue = <<>> /\ graph_pc = "idle"
    /\ consumer_pc = "idle" /\ put_log = <<>> /\ received = <<>> /\ yielded = <<>>
    /\ ws_received = <<>> /\ collected_logs = <<>> /\ fetch_pc = "idle"
    /\ fetch_ended = "none" /\ fetch_return = <<>>
    /\ step_prompt = NoPrompt /\ node_messages = <<>> /\ tool_log = <<>>
    /\ repl_calls = 0
    /\ plot_files = {}
    /\ repl_embedded = <<>>
    /\ repl_result = NoReplResult

\* python_repl_tool(code); request_uuid = str(uuid.uuid4()) is written as
\* the number of the call
PythonReplTool(result) ==
    /\ repl_calls < MaxReplCalls
    /\ repl_calls' = repl_calls + 1
    /\ repl_embedded' = result.plots
    /\ repl_result' = [result EXCEPT !.plots = saved_plots(result.plots, repl_calls + 1)]
    /\ plot_files' = plot_files \cup Range(saved_plots(result.plots, repl_calls + 1))
    /\ UNCHANGED not_tvars

NextRepl == \E result \in ReplInputs : PythonReplTool(result)

SpecRepl == InitRepl /\ [][NextRepl]_vars

\* the 0-based positions of the embedded images that decode
Decoded(plots) == {i \in 0..(Len(plots) - 1) : plots[i + 1].valid}

\* C27: the plots of the result python_repl_tool returns are paths of files
\* the tool wrote, never payloads: one per embedded image that decoded, in
\* embedded order, with distinct names under the directory of that call only;
\* an image that does not decode is dropped; an empty list stays empty
C27_PlotsArePaths ==
    /\ \A k \in 1..Len(repl_result.plots) :
          /\ repl_result.plots[k].kind = "path"
          /\ repl_result.plots[k] \in plot_files
          /\ repl_result.plots[k].dir = repl_calls
          /\ \A j \in 1..(k - 1) : repl_result.plots[j].index < repl_result.plots[k].index
    /\ {repl_result.plots[k].index : k \in 1..Len(repl_result.plots)} = Decoded(repl_embedded)
    /\ Len(repl_result.plots) = Cardinality(Decoded(repl_embedded))
    /\ repl_embedded = <<>> => repl_result.plots = <<>>
    /\ \A f \in plot_files : f.dir \in 1..repl_calls

\* the second call got an image that does not decode and then one that
\* does: one path is returned, named after the image's position, in the
\* directory of the call; the first call's file is in another directory
C27_Witness ==
    /\ repl_calls = 2
    /\ Len(repl_embedded) = 2
    /\ ~repl_embedded[1].valid /\ repl_embedded[2].valid
    /\ repl_result.plots = <<plot_path(2, 1)>>
    /\ plot_path(1, 0) \in plot_files

----------------------------------------------------------------------------
(* The /execute handler: the plot files of a call *)

\* the file names the submitted code saves its figures under
PlotNames == {"a.png", "b.png"}

\* two requests, the first of session s1 and the second of session s2
PlotRequests == {1, 2}
PlotSession(c) == IF c = 1 THEN "s1" ELSE "s2"

\* request_uuid = "e2695b8c-...": the directory of every request, whatever
\* its session
session_plots_dir(session) == "e2695b8c"

PlotDirs == {session_plots_dir(PlotSession(c)) : c \in PlotRequests}
DirOf(c) == session_plots_dir(PlotSession(c))

IdlePlotCall == [pc |-> "idle", initial_plots |-> {}, wrote |-> {}, plots |-> {}]

\* new_plots = current_plots - initial_plots
new_plots(current_plots, initial_plots) == current_plots \ initial_plots

InitPlots ==
    /\ poll_count = 0 /\ poll_status = "none" /\ monitor = "idle" /\ monitor_result = NoCall
    /\ messages = <<>> /\ final = NotFinalized /\ fpc = "idle"
    /\ logs = <<>> /\ embedded = NoObj /\ parsed = NotCalled /\ ppc = "idle"
    /\ code_history = <<>> /\ call_log = <<>> /\ bundle_code = <<>> /\ last_call = NoCall
    /\ applications = <<>> /\ build_type_calls = 0
    /\ analysis_steps = <<>> /\ active_step_index = -1 /\ code_iterations = 0
    /\ last_message = NoMessage /\ node = "idle" /\ model_calls = 0
    /\ routed = NoDecision /\ trail = <<>>
    /\ SESSION_CONTEXTS = NoSessions /\ sys_stdout = Console
    /\ requests = NoRequests /\ succeeded = NoneSucceeded /\ last_reset = NoReset
    /\ compared = NotCompared
    /\ harness = "none" /\ stream_queue = <<>> /\ graph_pc = "idle"
    /\ consumer_pc = "idle" /\ put_log = <<>> /\ received = <<>> /\ yielded = <<>>
    /\ ws_received = <<>> /\ collected_logs = <<>> /\ fetch_pc = "idle"
    /\ fetch_ended = "none" /\ fetch_return = <<>>
    /\ step_prompt = NoPrompt /\ node_messages = <<>> /\ tool_log = <<>>
    /\ repl_calls = 0 /\ plot_files = {} /\ repl_embedded = <<>> /\ repl_result = NoReplResult
    /\ plots_dir = [d \in PlotDirs |-> {}]
    /\ plot_calls = [c \in PlotRequests |-> IdlePlotCall]

\* the handler up to `await asyncio.to_thread(exec, ...)`: the snapshot of
\* the directory
PlotsEnter(c) ==
    /\ plot_calls[c].pc = "idle"
    /\ plot_calls' = [plot_calls EXCEPT ![c].pc = "running",
                                        ![c].initial_plots = plots_dir[DirOf(c)]]
    /\ UNCHANGED plots_dir
    /\ UNCHANGED not_kvars

\* the code of the request, in its thread, saves a figure under
\* execution_context["plots_dir"]
SavePlot(c, name) ==
    /\ plot_calls[c].pc = "running"
    /\ name \notin plot_calls[c].wrote
    /\ plots_dir' = [plots_dir EXCEPT ![DirOf(c)] = @ \cup {name}]
    /\ plot_calls' = [plot_calls EXCEPT ![c].wrote = @ \cup {name}]
    /\ UNCHANGED not_kvars

\* exec returned: the directory is listed again and the difference reported
PlotsReturn(c) ==
    /\ plot_calls[c].pc = "running"
    /\ plot_calls' = [plot_calls EXCEPT
                        ![c].pc = "returned",
                        ![c].plots = new_plots(plots_dir[DirOf(c)],
                                               plot_calls[c].initial_plots)]
    /\ UNCHANGED plots_dir
    /\ UNCHANGED not_kvars

\* exec raised: except Exception returns plots_saved as it was, empty
PlotsRaise(c) ==
    /\ plot_calls[c].pc = "running"
    /\ plot_calls' = [plot_calls EXCEPT ![c].pc = "failed", ![c].plots = {}]
    /\ UNCHANGED plots_dir
    /\ UNCHANGED not_kvars

NextPlots ==
    \E c \in PlotRequests :
        \/ PlotsEnter(c)
        \/ \E name \in PlotNames : SavePlot(c, name)
        \/ PlotsReturn(c)
        \/ PlotsRaise(c)

SpecPlots == InitPlots /\ [][NextPlots]_vars

\* C29: the plots of a local execute result are exactly the files the call's
\* own code newly wrote between the snapshot and the return; a file written
\* by an overlapping call of another session is never in them
C29_PlotsAreOwnNewFiles ==
    \A c \in PlotRequests :
        plot_calls[c].pc = "returned" =>
            /\ plot_calls[c].plots =
                  plot_calls[c].wrote \ plot_calls[c].initial_plots
            /\ \A d \in PlotRequests \ {c} :
                  PlotSession(d) # PlotSession(c) =>
                      plot_calls[c].plots \cap (plot_calls[d].wrote \ plot_calls[c].wrote) = {}

====
